---- MODULE Spec2Model ----
(***************************************************************************)
(* Model of the lumios rendering core: the Vulkan / DirectX12 backends,    *)
(* the backend factory and the GraphicsFrontend state machine and loop.    *)
(*                                                                         *)
(* Three specifications share the variables:                               *)
(*   SpecPick    - VulkanBackend::PickPhysicalDevice on enumerated devices *)
(*   SpecBackend - one backend object driven through its public contract   *)
(*   Spec        - GraphicsFrontend driving the backend it owns            *)
(***************************************************************************)
EXTENDS Integers, Sequences, FiniteSets, TLC

VARIABLES
    pickDevices,    \* the devices vkEnumeratePhysicalDevices reports
    pickOut,        \* what PickPhysicalDevice left behind (NotPicked before the call)
    be,             \* the backend object: its member variables
    nat,            \* the native layer: live native objects, GPU work, the process
    lastCall,       \* history: the last backend call and what it returned
    hist,           \* history: counters and flags of the backend's calls
    fe,             \* the GraphicsFrontend object: its member variables
    glfw,           \* the window system: the frontend's window
    pc,             \* where the thread is: outside Run ("idle") or a main-loop step
    fcall,          \* history: the last frontend call or loop step
    fhist,          \* history: failed frames of the main loop
    cfg,            \* a GraphicsConfig object: its three member groups
    cfgCall,        \* history: the last call on the GraphicsConfig object
    engine,         \* g_engine_instance: the Engine object, NoEngine for nullptr
    erun            \* where Engine::Run is, the last engine call, the Application

pickVars == <<pickDevices, pickOut>>
beVars == <<be, nat, lastCall, hist>>
feVars == <<fe, glfw, pc, fcall, fhist>>
cfgVars == <<cfg, cfgCall>>
engVars == <<engine, erun>>
vars == <<pickDevices, pickOut, be, nat, lastCall, hist, fe, glfw, pc, fcall, fhist,
          cfg, cfgCall, engine, erun>>

(***************************************************************************)
(* Bounds of the model                                                     *)
(***************************************************************************)
MaxDevices == 2
MaxFramesInFlight == 2      \* largest max_frames_in_flight a config carries
MaxInits == 2               \* native instances created over a run
MaxFrames == 2              \* frames presented over a run

(***************************************************************************)
(* Physical-device selection (VulkanBackend::PickPhysicalDevice)           *)
(***************************************************************************)
SwapchainExtension == "VK_KHR_swapchain"

\* the device extensions every selected device must offer
deviceExtensions == {SwapchainExtension}

\* queue family lists a device may report: each family says whether it has
\* VK_QUEUE_GRAPHICS_BIT and whether it can present to the surface
QueueFamilyLists ==
    { <<[graphics |-> TRUE, present |-> FALSE]>>,
      <<[graphics |-> FALSE, present |-> TRUE]>>,
      <<[graphics |-> TRUE, present |-> TRUE]>>,
      <<[graphics |-> TRUE, present |-> FALSE], [graphics |-> FALSE, present |-> TRUE]>> }

DeviceTypes == {"DISCRETE", "INTEGRATED", "OTHER"}

ImageDimensions == {4096, 16384}

AllDevices ==
    [ deviceType          : DeviceTypes,
      maxImageDimension2D : ImageDimensions,
      queueFamilies       : QueueFamilyLists,
      extensions          : {{}, {SwapchainExtension}},
      formatCount         : {0, 1},
      presentModeCount    : {0, 1},
      geometryShader      : BOOLEAN,
      samplerAnisotropy   : BOOLEAN ]

\* the ways a device can be unfit for rendering to the surface
LacksQueueFamily(device) ==
    \/ \A i \in 1..Len(device.queueFamilies) : ~device.queueFamilies[i].graphics
    \/ \A i \in 1..Len(device.queueFamilies) : ~device.queueFamilies[i].present

Defects(device) ==
    (IF LacksQueueFamily(device) THEN {"queues"} ELSE {})
    \cup (IF SwapchainExtension \notin device.extensions THEN {"extension"} ELSE {})
    \cup (IF device.formatCount = 0 THEN {"formats"} ELSE {})
    \cup (IF device.presentModeCount = 0 THEN {"presentModes"} ELSE {})

\* the devices enumerated in the model: fit ones and ones with a single defect
Devices == { d \in AllDevices : Cardinality(Defects(d)) <= 1 }

NoFamily == -1

\* QueueFamilyIndices::IsComplete
IsComplete(indices) ==
    indices.graphics_family # NoFamily /\ indices.present_family # NoFamily

RECURSIVE FindQueueFamiliesFrom(_, _, _)
FindQueueFamiliesFrom(families, i, indices) ==
    IF i > Len(families) THEN indices
    ELSE LET g == IF families[i].graphics THEN i - 1 ELSE indices.graphics_family
             p == IF families[i].present THEN i - 1 ELSE indices.present_family
             next == [graphics_family |-> g, present_family |-> p]
         IN  IF IsComplete(next) THEN next
             ELSE FindQueueFamiliesFrom(families, i + 1, next)

\* VulkanBackend::FindQueueFamilies
FindQueueFamilies(device) ==
    FindQueueFamiliesFrom(device.queueFamilies, 1,
        [graphics_family |-> NoFamily, present_family |-> NoFamily])

\* VulkanBackend::CheckDeviceExtensionSupport
CheckDeviceExtensionSupport(device) ==
    (deviceExtensions \ device.extensions) = {}

\* the score of one device, as the loop body of PickPhysicalDevice computes it
\* (uint32_t sums; with the dimensions modelled they stay far below 2^32)
DeviceScore(device) ==
    LET typeWeight == IF device.deviceType = "DISCRETE" THEN 10000
                      ELSE IF device.deviceType = "INTEGRATED" THEN 1000
                      ELSE 100
        s1 == typeWeight + device.maxImageDimension2D
        s2 == IF ~IsComplete(FindQueueFamilies(device)) THEN 0 ELSE s1
        s3 == IF s2 > 0 /\ ~CheckDeviceExtensionSupport(device) THEN 0 ELSE s2
        s4 == IF s3 > 0 /\ (device.formatCount = 0 \/ device.presentModeCount = 0)
              THEN 0 ELSE s3
        s5 == IF device.geometryShader THEN s4 + 100 ELSE s4
        s6 == IF device.samplerAnisotropy THEN s5 + 50 ELSE s5
    IN  s6

NullDevice == 0

\* a selection loop in which a later device with an equal score replaces the best
RECURSIVE PickLoopLastWins(_, _, _, _)
PickLoopLastWins(devices, i, bestScore, bestDevice) ==
    IF i > Len(devices) THEN [bestScore |-> bestScore, bestDevice |-> bestDevice]
    ELSE LET score == DeviceScore(devices[i])
         IN  IF score >= bestScore
             THEN PickLoopLastWins(devices, i + 1, score, i)
             ELSE PickLoopLastWins(devices, i + 1, bestScore, bestDevice)

\* the loop over the enumerated devices: the first device with the highest
\* score so far becomes the best
RECURSIVE PickLoop(_, _, _, _)
PickLoop(devices, i, bestScore, bestDevice) ==
    IF i > Len(devices) THEN [bestScore |-> bestScore, bestDevice |-> bestDevice]
    ELSE LET score == DeviceScore(devices[i])
         IN  IF score > bestScore
             THEN PickLoop(devices, i + 1, score, i)
             ELSE PickLoop(devices, i + 1, bestScore, bestDevice)

\* a PickPhysicalDevice whose loop lets the last of equal scores win
PickPhysicalDeviceLastWins(devices) ==
    IF Len(devices) = 0
    THEN [result |-> "FAILED_INITIALIZATION", m_PhysicalDevice |-> NullDevice, bestScore |-> 0]
    ELSE LET best == PickLoopLastWins(devices, 1, 0, NullDevice)
         IN  IF best.bestDevice = NullDevice \/ best.bestScore = 0
             THEN [result |-> "FAILED_INITIALIZATION", m_PhysicalDevice |-> NullDevice,
                   bestScore |-> best.bestScore]
             ELSE [result |-> "SUCCESS", m_PhysicalDevice |-> best.bestDevice,
                   bestScore |-> best.bestScore]

\* VulkanBackend::PickPhysicalDevice: the result and the device stored in
\* m_PhysicalDevice (the 1-based enumeration index, NullDevice when none)
PickPhysicalDevice(devices) ==
    IF Len(devices) = 0
    THEN [result |-> "FAILED_INITIALIZATION", m_PhysicalDevice |-> NullDevice, bestScore |-> 0]
    ELSE LET best == PickLoop(devices, 1, 0, NullDevice)
         IN  IF best.bestDevice = NullDevice \/ best.bestScore = 0
             THEN [result |-> "FAILED_INITIALIZATION", m_PhysicalDevice |-> NullDevice,
                   bestScore |-> best.bestScore]
             ELSE [result |-> "SUCCESS", m_PhysicalDevice |-> best.bestDevice,
                   bestScore |-> best.bestScore]

\* before the call: nothing selected
NotPicked == [result |-> "NOT_CALLED", m_PhysicalDevice |-> NullDevice, bestScore |-> 0]

DeviceLists == UNION { [1..n -> Devices] : n \in 0..MaxDevices }


(***************************************************************************)
(* Configuration (the fields the backends and the frontend read)           *)
(***************************************************************************)
GraphicsAPI == {"VULKAN", "DIRECTX12", "AUTO_SELECT"}

\* RenderConfig's in-class defaults
DefaultConfig ==
    [preferred_api |-> "AUTO_SELECT", max_frames_in_flight |-> 2, enable_validation |-> TRUE]

\* the configurations handed to Initialize
Configs ==
    [ preferred_api        : GraphicsAPI,
      max_frames_in_flight : 0..MaxFramesInFlight,
      enable_validation    : BOOLEAN ]

(***************************************************************************)
(* GraphicsConfig: the configuration object, its setters, the mutable      *)
(* accessors of its three groups, and IsValid                              *)
(***************************************************************************)
PresentMode == {"IMMEDIATE", "FIFO", "FIFO_RELAXED", "MAILBOX"}
MSAASamples == {"NONE", "X2", "X4", "X8", "X16"}

\* simple_min and simple_max on uint32_t
simple_min(a, b) == IF a < b THEN a ELSE b
simple_max(a, b) == IF a > b THEN a ELSE b

\* GraphicsConfig::GraphicsConfig: the in-class defaults of the three groups
\* (ValidateConfiguration only logs)
NewGraphicsConfig ==
    [ m_WindowConfig |->
        [ width |-> 1280, height |-> 720, title |-> "Lumios Engine", fullscreen |-> FALSE,
          resizable |-> TRUE, decorated |-> TRUE, maximized |-> FALSE, vsync |-> TRUE ],
      m_RenderConfig |->
        [ preferred_api |-> "AUTO_SELECT", present_mode |-> "FIFO", msaa_samples |-> "NONE",
          enable_validation |-> TRUE, enable_debug_markers |-> TRUE,
          max_frames_in_flight |-> 2, enable_anisotropic_filtering |-> TRUE,
          max_anisotropy |-> 16 ],
      m_PerformanceConfig |->
        [ enable_gpu_timing |-> FALSE, enable_cpu_timing |-> FALSE, target_fps |-> 60,
          adaptive_quality |-> FALSE ] ]

\* a SetWindowSize that stores what it is given
SetWindowSizeUnclamped(c, width, height) ==
    [c EXCEPT !.m_WindowConfig.width = width, !.m_WindowConfig.height = height]

SetWindowSize(c, width, height) ==
    [c EXCEPT !.m_WindowConfig.width = simple_max(1, width),
              !.m_WindowConfig.height = simple_max(1, height)]

SetWindowTitle(c, title) ==
    [c EXCEPT !.m_WindowConfig.title = IF title = "" THEN "Lumios Engine" ELSE title]

SetFullscreen(c, fullscreen) == [c EXCEPT !.m_WindowConfig.fullscreen = fullscreen]

SetResizable(c, resizable) == [c EXCEPT !.m_WindowConfig.resizable = resizable]

SetVSync(c, vsync) ==
    [c EXCEPT !.m_WindowConfig.vsync = vsync,
              !.m_RenderConfig.present_mode = IF vsync THEN "FIFO" ELSE "IMMEDIATE"]

SetPreferredAPI(c, api) == [c EXCEPT !.m_RenderConfig.preferred_api = api]

\* a SetPresentMode that leaves the vsync flag alone
SetPresentModeOnly(c, mode) == [c EXCEPT !.m_RenderConfig.present_mode = mode]

SetPresentMode(c, mode) ==
    [c EXCEPT !.m_RenderConfig.present_mode = mode,
              !.m_WindowConfig.vsync = (mode = "FIFO" \/ mode = "FIFO_RELAXED")]

SetMSAA(c, samples) == [c EXCEPT !.m_RenderConfig.msaa_samples = samples]

SetValidationEnabled(c, enabled) == [c EXCEPT !.m_RenderConfig.enable_validation = enabled]

\* a SetMaxFramesInFlight with the lower clamp only
SetMaxFramesInFlightNoCeiling(c, frames) ==
    [c EXCEPT !.m_RenderConfig.max_frames_in_flight = simple_max(1, frames)]

SetMaxFramesInFlight(c, frames) ==
    [c EXCEPT !.m_RenderConfig.max_frames_in_flight = simple_max(1, simple_min(frames, 8))]

SetTargetFPS(c, fps) ==
    [c EXCEPT !.m_PerformanceConfig.target_fps = simple_max(30, simple_min(fps, 300))]

SetAdaptiveQuality(c, enabled) == [c EXCEPT !.m_PerformanceConfig.adaptive_quality = enabled]

\* GraphicsConfig::IsValid
IsValid(c) ==
    /\ c.m_WindowConfig.width > 0
    /\ c.m_WindowConfig.height > 0
    /\ c.m_WindowConfig.title # ""
    /\ c.m_RenderConfig.max_frames_in_flight > 0
    /\ c.m_PerformanceConfig.target_fps > 0

\* the non-const GetWindowConfig(), GetRenderConfig() and
\* GetPerformanceConfig() hand out references: the caller assigns a member
WriteMember(c, group, member, value) == [c EXCEPT ![group][member] = value]

\* the latest call: its name and argument, the object before it, whether the
\* call before it was the same call, whether a member was ever assigned through
\* a mutable accessor, and the number of calls made
NoConfigCall ==
    [ op |-> "none", arg |-> <<>>, before |-> NewGraphicsConfig, repeated |-> FALSE,
      direct |-> FALSE, count |-> 0 ]

(***************************************************************************)
(* Engine (lumios.h, lumios.cpp): the global instance and the Application  *)
(* it runs.                                                                *)
(***************************************************************************)
\* the members of an Engine object as its constructor leaves them; m_Graphics
\* says whether the engine holds a GraphicsFrontend.  With exists = FALSE the
\* record stands for g_engine_instance == nullptr
NewEngine ==
    [ exists |-> TRUE, enable_graphics |-> TRUE, m_IsInitialized |-> FALSE,
      m_IsRunning |-> FALSE, m_ShouldShutdown |-> FALSE, m_Graphics |-> FALSE ]

NoEngine == [NewEngine EXCEPT !.exists = FALSE]

\* the lifecycle functions of an Application
AppCalls == {"Initialize", "Update", "Render", "Shutdown"}

\* what is remembered of the calls Engine::Run made on the application in the
\* run under way or the last one: how often each function was called (counted
\* up to 2), the first call, the latest call, and the calls of the latest loop
\* iteration in order
NoAppCalls ==
    [ count |-> [c \in AppCalls |-> 0], first |-> "none", last |-> "none", iter |-> <<>> ]

\* pc: "idle" outside Engine::Run, "graphics" in the frontend's main loop,
\* "fallback" in the loop without graphics; op and result: the latest call of
\* the global interface and what it did; lastInit: what the latest
\* InitializeEngine returned ("none" before the first and after ShutdownEngine);
\* requested: Engine::RequestShutdown was called during the run under way
NoEngineRun ==
    [ pc |-> "idle", op |-> "none", result |-> "none", lastInit |-> "none",
      requested |-> FALSE, app |-> NoAppCalls ]

(***************************************************************************)
(* The native layer.  A native object is <<kind, id>>; a handle is the id, *)
(* NullHandle for VK_NULL_HANDLE / nullptr.  GarbageHandle stands for what *)
(* a read outside a vector's storage yields when it is not null.           *)
(***************************************************************************)
NullHandle == 0
GarbageHandle == -1

NativeKinds == {"instance", "debugMessenger", "surface"}

NativeInit ==
    [ created     |-> [k \in NativeKinds |-> 0],  \* objects created so far, per kind
      live        |-> {},                         \* objects created and not destroyed
      doubleFree  |-> FALSE,                      \* a destroyed object was destroyed again
      inFlight    |-> {},                         \* slots whose submitted work is pending
      signalled   |-> {},                         \* fences in the signalled state
      pendingReset |-> FALSE,                     \* a command buffer was reset while
                                                  \* its slot's work was pending
      crashed     |-> FALSE,                      \* the process died in a native call
      shutdownLog |-> <<>>,                       \* native calls of the last Shutdown
      first_warning |-> TRUE,                     \* the static flag of LogNotImplemented
      warnings    |-> <<>>,                       \* the functions whose "not implemented"
                                                  \* warning was logged
      initLog     |-> <<>>,                       \* steps run by the call under way
      deviceWaits |-> 0,                          \* vkDeviceWaitIdle calls of the call under way
      recreations |-> 0,                          \* RecreateSwapchain runs of the call under way
      recreateLog |-> <<>>,                       \* steps RecreateSwapchain ran in the call under way
      presented   |-> "none" ]                    \* what vkQueuePresentKHR answered in the
                                                  \* call under way ("none": not called)

\* between two backend calls the per-call records are empty
Settle(n) ==
    [n EXCEPT !.deviceWaits = 0, !.recreations = 0, !.presented = "none", !.initLog = <<>>,
              !.recreateLog = <<>>]

\* vkCreate*: a new object of the kind; its handle is NewHandle
NewHandle(n, kind) == n.created[kind] + 1

CreateObject(n, kind) ==
    [n EXCEPT !.created[kind] = @ + 1,
              !.live = @ \cup {<<kind, NewHandle(n, kind)>>}]

\* vkDestroy*: the object dies; destroying one that is already dead is recorded
DestroyObject(n, kind, handle) ==
    [n EXCEPT !.live = @ \ {<<kind, handle>>},
              !.doubleFree = @ \/ (kind \in NativeKinds /\ handle \in 1..n.created[kind]
                                   /\ <<kind, handle>> \notin n.live)]

(***************************************************************************)
(* The backend object                                                      *)
(***************************************************************************)
BackendKinds == {"Vulkan", "DirectX12"}

\* a backend as its constructor leaves it (in-class member initialisers)
NewBackend(kind) ==
    [ kind                       |-> kind,
      m_IsInitialized            |-> FALSE,
      m_Instance                 |-> NullHandle,
      m_DebugMessenger           |-> NullHandle,
      m_Surface                  |-> NullHandle,
      m_PhysicalDevice           |-> NullDevice,
      m_Device                   |-> NullHandle,
      m_Swapchain                |-> NullHandle,
      m_SwapchainImageViews      |-> <<>>,
      m_CommandPool              |-> NullHandle,
      m_CommandBuffers           |-> <<>>,
      m_ImageAvailableSemaphores |-> <<>>,
      m_RenderFinishedSemaphores |-> <<>>,
      m_InFlightFences           |-> <<>>,
      m_Config                   |-> DefaultConfig,
      m_Window                   |-> NullHandle,
      m_FramebufferResized       |-> FALSE,
      m_CurrentFrame             |-> 0,
      frames_rendered            |-> 0,
      m_CurrentBackBuffer        |-> 0,
      m_FenceValue               |-> 0 ]

\* m_Backend == nullptr
NoBackend == NewBackend("none")

\* what a backend call leaves: the backend, the native layer, the value returned
Ret(b, n, r) == [be |-> b, nat |-> n, result |-> r]

\* the process dies inside the call: nothing is returned
Crash(b, n) == [be |-> b, nat |-> [n EXCEPT !.crashed = TRUE], result |-> "CRASH"]

\* the value x, computed once, handed to F
Bind(x, F(_)) == CHOOSE out \in { F(v) : v \in {x} } : TRUE

\* `if ((result = Step()) != SUCCESS) return result;` and then F on what Step left
Then(r, F(_)) ==
    CHOOSE out \in { IF v.result # "SUCCESS" THEN v ELSE F(v) : v \in {r} } : TRUE

(***************************************************************************)
(* VulkanBackend: Initialize and its steps.  `env` is what the native      *)
(* layer answers: layers (the validation layer is installed), instance,    *)
(* surface (the create call succeeds), messenger ("ok" or "failed"),       *)
(* devices (the physical devices enumerated).                              *)
(***************************************************************************)
\* VulkanBackend::CreateInstance
CreateInstance(b, n, env) ==
    IF b.m_Config.enable_validation /\ ~env.layers
    THEN Ret(b, n, "FAILED_INITIALIZATION")
    ELSE IF ~env.instance
    THEN Ret(b, n, "FAILED_INITIALIZATION")
    ELSE Ret([b EXCEPT !.m_Instance = NewHandle(n, "instance")],
             CreateObject(n, "instance"), "SUCCESS")

\* VulkanBackend::SetupDebugMessenger
SetupDebugMessenger(b, n, env) ==
    IF ~b.m_Config.enable_validation
    THEN Ret(b, n, "SUCCESS")
    ELSE IF env.messenger = "ok"
    THEN Ret([b EXCEPT !.m_DebugMessenger = NewHandle(n, "debugMessenger")],
             CreateObject(n, "debugMessenger"), "SUCCESS")
    ELSE Ret(b, n, "FAILED_INITIALIZATION")

\* VulkanBackend::CreateSurface
CreateSurface(b, n, env) ==
    IF ~env.surface
    THEN Ret(b, n, "FAILED_INITIALIZATION")
    ELSE Ret([b EXCEPT !.m_Surface = NewHandle(n, "surface")],
             CreateObject(n, "surface"), "SUCCESS")

\* VulkanBackend::PickPhysicalDevice as a step of Initialize
PickStep(b, n, env) ==
    LET picked == PickPhysicalDevice(env.devices)
    IN  IF picked.result = "SUCCESS"
        THEN Ret([b EXCEPT !.m_PhysicalDevice = picked.m_PhysicalDevice], n, "SUCCESS")
        ELSE Ret(b, n, picked.result)

\* the placeholder steps: each logs and returns SUCCESS, creating nothing
CreateLogicalDevice(b, n, env) == Ret(b, n, "SUCCESS")
CreateSwapchain(b, n, env) == Ret(b, n, "SUCCESS")
CreateImageViews(b, n, env) == Ret(b, n, "SUCCESS")
CreateCommandPool(b, n, env) == Ret(b, n, "SUCCESS")
CreateCommandBuffers(b, n, env) == Ret(b, n, "SUCCESS")
CreateSyncObjects(b, n, env) == Ret(b, n, "SUCCESS")

\* an Initialize that creates the surface before the instance
InitStepNamesSurfaceFirst ==
    << "CreateSurface", "CreateInstance", "SetupDebugMessenger", "PickPhysicalDevice",
       "CreateLogicalDevice", "CreateSwapchain", "CreateImageViews", "CreateCommandPool",
       "CreateCommandBuffers", "CreateSyncObjects" >>

\* the steps of Initialize, in the order of its body
InitStepNames ==
    << "CreateInstance", "SetupDebugMessenger", "CreateSurface", "PickPhysicalDevice",
       "CreateLogicalDevice", "CreateSwapchain", "CreateImageViews", "CreateCommandPool",
       "CreateCommandBuffers", "CreateSyncObjects" >>

InitStep(name, b, n, env) ==
    CASE name = "CreateInstance"       -> CreateInstance(b, n, env)
      [] name = "SetupDebugMessenger"  -> SetupDebugMessenger(b, n, env)
      [] name = "CreateSurface"        -> CreateSurface(b, n, env)
      [] name = "PickPhysicalDevice"   -> PickStep(b, n, env)
      [] name = "CreateLogicalDevice"  -> CreateLogicalDevice(b, n, env)
      [] name = "CreateSwapchain"      -> CreateSwapchain(b, n, env)
      [] name = "CreateImageViews"     -> CreateImageViews(b, n, env)
      [] name = "CreateCommandPool"    -> CreateCommandPool(b, n, env)
      [] name = "CreateCommandBuffers" -> CreateCommandBuffers(b, n, env)
      [] name = "CreateSyncObjects"    -> CreateSyncObjects(b, n, env)

\* a step of Initialize (or its return) has left r: recorded in the log of the call
LogStep(name, r) ==
    Bind(r, LAMBDA v :
        [v EXCEPT !.nat.initLog =
            Append(@, [step |-> name, result |-> v.result,
                       initialized |-> v.be.m_IsInitialized])])

\* each step in turn, returning at the first that fails; after the last one
\* m_IsInitialized = true and SUCCESS
RECURSIVE RunInitSteps(_, _, _, _, _)
RunInitSteps(steps, i, b, n, env) ==
    IF i > Len(steps)
    THEN Ret([b EXCEPT !.m_IsInitialized = TRUE], n, "SUCCESS")
    ELSE Then(LogStep(steps[i], InitStep(steps[i], b, n, env)),
              LAMBDA r : RunInitSteps(steps, i + 1, r.be, r.nat, env))

\* an Initialize without its `if (m_IsInitialized)` test
VkInitializeUnguarded(b, n, config, window, env) ==
    LogStep("return",
            RunInitSteps(InitStepNames, 1,
                         [b EXCEPT !.m_Config = config, !.m_Window = window], n, env))

\* VulkanBackend::Initialize
VkInitialize(b, n, config, window, env) ==
    IF b.m_IsInitialized
    THEN Ret(b, n, "SUCCESS")
    ELSE LogStep("return",
                 RunInitSteps(InitStepNames, 1,
                              [b EXCEPT !.m_Config = config, !.m_Window = window], n, env))

(***************************************************************************)
(* VulkanBackend: WaitIdle, Shutdown                                       *)
(***************************************************************************)
\* vkDeviceWaitIdle returns once no submitted work is pending; WaitIdle
\* calls it only on a non-null device
WaitIdleReturns(b, n) == b.m_Device = NullHandle \/ n.inFlight = {}

\* VulkanBackend::WaitIdle
VkWaitIdle(b, n) ==
    IF b.m_Device # NullHandle
    THEN Ret(b, [n EXCEPT !.deviceWaits = @ + 1], "void")
    ELSE Ret(b, n, "void")

\* element i (0-based) of a per-slot vector; outside the vector's storage the
\* read is undefined: `oob` says whether it yields null or a non-null value
SlotRead(vec, i, oob) ==
    IF i < Len(vec) THEN vec[i + 1]
    ELSE IF oob = "null" THEN NullHandle ELSE GarbageHandle

\* the slots 0..count-1 that some per-slot vector does not hold
MissingSlots(b, count) ==
    { i \in 0..(count - 1) :
        \/ i >= Len(b.m_RenderFinishedSemaphores)
        \/ i >= Len(b.m_ImageAvailableSemaphores)
        \/ i >= Len(b.m_InFlightFences) }

\* the handles the sync-object loop of Shutdown reads, in order
RECURSIVE SyncReads(_, _, _)
SyncReads(b, i, oob) ==
    IF i >= b.m_Config.max_frames_in_flight THEN <<>>
    ELSE << [kind |-> "semaphore", handle |-> SlotRead(b.m_RenderFinishedSemaphores, i, oob),
             guarded |-> TRUE],
            [kind |-> "semaphore", handle |-> SlotRead(b.m_ImageAvailableSemaphores, i, oob),
             guarded |-> TRUE],
            [kind |-> "fence", handle |-> SlotRead(b.m_InFlightFences, i, oob),
             guarded |-> TRUE] >>
         \o SyncReads(b, i + 1, oob)

\* VulkanBackend::CleanupSwapchain: every image view, then the swapchain
CleanupSwapchainReads(b) ==
    [i \in 1..Len(b.m_SwapchainImageViews) |->
        [kind |-> "imageView", handle |-> b.m_SwapchainImageViews[i], guarded |-> FALSE]]
    \o << [kind |-> "swapchain", handle |-> b.m_Swapchain, guarded |-> TRUE] >>

\* a Shutdown that destroys the instance before the surface and the messenger
ShutdownOrderInstanceFirst ==
    << "sync", "commandPool", "swapchain", "device", "instance", "debugMessenger", "surface" >>

\* the order in which Shutdown releases what the backend owns
ShutdownOrder ==
    << "sync", "commandPool", "swapchain", "device", "debugMessenger", "surface", "instance" >>

\* the handles one part of Shutdown passes to vkDestroy*; a guarded handle is
\* destroyed only when it is not null
ShutdownReads(b, part, oob) ==
    CASE part = "sync"           -> SyncReads(b, 0, oob)
      [] part = "commandPool"    ->
            << [kind |-> "commandPool", handle |-> b.m_CommandPool, guarded |-> TRUE] >>
      [] part = "swapchain"      -> CleanupSwapchainReads(b)
      [] part = "device"         ->
            << [kind |-> "device", handle |-> b.m_Device, guarded |-> TRUE] >>
      [] part = "debugMessenger" ->
            IF b.m_Config.enable_validation
            THEN << [kind |-> "debugMessenger", handle |-> b.m_DebugMessenger,
                     guarded |-> TRUE] >>
            ELSE <<>>
      [] part = "surface"        ->
            << [kind |-> "surface", handle |-> b.m_Surface, guarded |-> TRUE] >>
      [] part = "instance"       ->
            << [kind |-> "instance", handle |-> b.m_Instance, guarded |-> TRUE] >>

RECURSIVE AllShutdownReads(_, _, _, _)
AllShutdownReads(b, order, i, oob) ==
    IF i > Len(order) THEN <<>>
    ELSE ShutdownReads(b, order[i], oob) \o AllShutdownReads(b, order, i + 1, oob)

\* the destroy calls for a list of reads, each recorded in the shutdown log
RECURSIVE DestroyAll(_, _)
DestroyAll(n, reads) ==
    IF reads = <<>> THEN n
    ELSE LET r == Head(reads)
             n1 == IF r.guarded /\ r.handle = NullHandle THEN n
                   ELSE [DestroyObject(n, r.kind, r.handle) EXCEPT
                            !.shutdownLog = Append(@, [call |-> "destroy", kind |-> r.kind,
                                                       handle |-> r.handle])]
         IN  DestroyAll(n1, Tail(reads))

\* VulkanBackend::Shutdown.  A read outside the sync vectors is undefined:
\* oob = "crash" is the process dying there, before anything is destroyed.
VkShutdown(b, n, oob) ==
    IF ~b.m_IsInitialized THEN Ret(b, n, "void")
    ELSE LET n0 == [VkWaitIdle(b, n).nat EXCEPT !.shutdownLog =
                        << [call |-> "WaitIdle", kind |-> "device", handle |-> b.m_Device] >>]
         IN  IF oob = "crash" /\ MissingSlots(b, b.m_Config.max_frames_in_flight) # {}
             THEN Crash(b, n0)
             ELSE Ret([b EXCEPT !.m_IsInitialized = FALSE],
                      DestroyAll(n0, AllShutdownReads(b, ShutdownOrder, 1, oob)),
                      "void")

(***************************************************************************)
(* VulkanBackend: frame operations.  `env` is what the native layer        *)
(* answers: acquire and present (a VkResult), beginCmd, endCmd and submit  *)
(* (the call succeeds), undefined ("proceed" or "crash": what a native     *)
(* call made with a null device or a slot outside the vectors does;        *)
(* "trap": the native calls proceed and a division by zero traps).         *)
(***************************************************************************)
AcquireResults == {"VK_SUCCESS", "VK_SUBOPTIMAL_KHR", "VK_ERROR_OUT_OF_DATE_KHR", "VK_ERROR"}

\* the native calls of a frame operation are defined only on a created device
\* and on a slot every per-slot vector holds
FrameHandlesValid(b) ==
    /\ b.m_Device # NullHandle
    /\ b.m_CurrentFrame < Len(b.m_CommandBuffers)
    /\ MissingSlots(b, b.m_CurrentFrame + 1) = {}

\* the fence of a slot, when the slot exists
SlotFences(b, slot) ==
    IF slot < Len(b.m_InFlightFences) THEN {b.m_InFlightFences[slot + 1]} ELSE {}

\* VulkanBackend::CleanupSwapchain, called by RecreateSwapchain
CleanupSwapchain(b, n) ==
    LET reads == CleanupSwapchainReads(b)
        F[i \in 0..Len(reads)] ==
            IF i = 0 THEN n
            ELSE IF reads[i].guarded /\ reads[i].handle = NullHandle THEN F[i - 1]
            ELSE DestroyObject(F[i - 1], reads[i].kind, reads[i].handle)
    IN  F[Len(reads)]

\* a framebuffer size glfwGetFramebufferSize reports: <<width, height>>
NoSize == <<0, 0>>
ZeroArea(size) == size[1] = 0 \/ size[2] = 0

\* the sizes successive glfwGetFramebufferSize calls of one RecreateSwapchain
\* report, up to the first one with a nonzero area
SizeReads ==
    { << <<800, 600>> >>,
      << <<0, 600>>, <<800, 0>>, <<800, 600>> >> }

\* one step of RecreateSwapchain, with the size a glfwGetFramebufferSize read
RecreateStep(n, step, size) ==
    [n EXCEPT !.recreateLog = Append(@, [step |-> step, size |-> size])]

\* `while (width == 0 || height == 0)`, sizes[i] being the size read last
RECURSIVE WaitForArea(_, _, _)
WaitForArea(n, sizes, i) ==
    IF ~ZeroArea(sizes[i]) \/ i = Len(sizes) THEN n
    ELSE WaitForArea(RecreateStep(RecreateStep(n, "glfwGetFramebufferSize", sizes[i + 1]),
                                  "glfwWaitEvents", NoSize),
                     sizes, i + 1)

\* RecreateSwapchain returns once a read reports a nonzero area;
\* glfwGetFramebufferSize on the null window of a backend that was never
\* initialized is undefined: the process dies, or the size stays zero for ever
RecreateReturns(b, env) ==
    b.kind = "Vulkan" =>
        /\ b.m_Window = NullHandle => env.undefined = "crash"
        /\ b.m_Window # NullHandle => ~ZeroArea(env.sizes[Len(env.sizes)])

\* a RecreateSwapchain that tears the swapchain down before it looks at the size
VkRecreateSwapchainEager(b, n, env) ==
    IF b.m_Window = NullHandle THEN Crash(b, n)
    ELSE Bind(RecreateStep(CleanupSwapchain(b, [n EXCEPT !.recreations = @ + 1]),
                           "CleanupSwapchain", NoSize),
              LAMBDA n0 :
         Bind(WaitForArea(RecreateStep(n0, "glfwGetFramebufferSize", env.sizes[1]),
                          env.sizes, 1),
              LAMBDA n1 :
         Then(CreateSwapchain(b, RecreateStep(RecreateStep(VkWaitIdle(b, n1).nat,
                                                           "WaitIdle", NoSize),
                                              "CreateSwapchain", NoSize), env),
              LAMBDA r1 :
         Then(CreateImageViews(r1.be, RecreateStep(r1.nat, "CreateImageViews", NoSize), env),
              LAMBDA r2 : Ret(r2.be, r2.nat, "SUCCESS")))))

\* VulkanBackend::RecreateSwapchain (the wait for a nonzero area, WaitIdle,
\* CleanupSwapchain, then the two placeholder steps)
VkRecreateSwapchain(b, n, env) ==
    IF b.m_Window = NullHandle THEN Crash(b, n)
    ELSE Bind(WaitForArea(RecreateStep(n, "glfwGetFramebufferSize", env.sizes[1]),
                          env.sizes, 1),
              LAMBDA n1 :
         Bind(RecreateStep(VkWaitIdle(b, n1).nat, "WaitIdle", NoSize),
              LAMBDA n2 :
         Bind(RecreateStep(CleanupSwapchain(b, [n2 EXCEPT !.recreations = @ + 1]),
                           "CleanupSwapchain", NoSize),
              LAMBDA n3 :
         Then(CreateSwapchain(b, RecreateStep(n3, "CreateSwapchain", NoSize), env),
              LAMBDA r1 :
         Then(CreateImageViews(r1.be, RecreateStep(r1.nat, "CreateImageViews", NoSize), env),
              LAMBDA r2 : Ret(r2.be, r2.nat, "SUCCESS"))))))

\* vkWaitForFences(..., UINT64_MAX) on the current slot's fence returns once the
\* fence is signalled; on a missing slot no fence is waited for
BeginFrameReturns(b, n) ==
    \/ ~b.m_IsInitialized
    \/ ~FrameHandlesValid(b)
    \/ SlotFences(b, b.m_CurrentFrame) \subseteq n.signalled

\* VulkanBackend::BeginFrame
VkBeginFrame(b, n, env) ==
    IF ~b.m_IsInitialized THEN Ret(b, n, "FAILED_INITIALIZATION")
    ELSE IF ~FrameHandlesValid(b) /\ env.undefined = "crash" THEN Crash(b, n)
    ELSE IF env.acquire = "VK_ERROR_OUT_OF_DATE_KHR"
    THEN LET r == VkRecreateSwapchain(b, n, env)
         IN  Ret(r.be, r.nat, "SUCCESS")
    ELSE IF env.acquire \notin {"VK_SUCCESS", "VK_SUBOPTIMAL_KHR"}
    THEN Ret(b, n, "FAILED_SWAPCHAIN_CREATION")
    ELSE LET slot == b.m_CurrentFrame
             \* vkResetFences, then vkResetCommandBuffer on the slot
             n1 == [n EXCEPT !.signalled = @ \ SlotFences(b, slot),
                             !.pendingReset = @ \/ slot \in n.inFlight]
         IN  IF ~env.beginCmd
             THEN Ret(b, n1, "FAILED_COMMAND_BUFFER_CREATION")
             ELSE Ret(b, n1, "SUCCESS")

\* VulkanBackend::EndFrame
VkEndFrame(b, n, env) ==
    IF ~b.m_IsInitialized THEN Ret(b, n, "FAILED_INITIALIZATION")
    ELSE IF ~FrameHandlesValid(b) /\ env.undefined = "crash" THEN Crash(b, n)
    ELSE IF ~env.endCmd THEN Ret(b, n, "FAILED_COMMAND_BUFFER_CREATION")
    ELSE Ret(b, n, "SUCCESS")

\* `(m_CurrentFrame + 1) % max_frames_in_flight` of uint32_t values.  With a
\* zero divisor the operation is undefined: the divide instruction traps and
\* the process dies, or it does not trap and the dividend is what is left
Remainder(dividend, divisor) ==
    IF divisor = 0 THEN dividend ELSE dividend % divisor

ModuloTraps(b, env) ==
    b.m_Config.max_frames_in_flight = 0 /\ env.undefined # "proceed"

\* VulkanBackend::Present
VkPresent(b, n, env) ==
    IF ~b.m_IsInitialized THEN Ret(b, n, "FAILED_INITIALIZATION")
    ELSE IF ~FrameHandlesValid(b) /\ env.undefined = "crash" THEN Crash(b, n)
    ELSE IF ~env.submit THEN Ret(b, n, "UNKNOWN_ERROR")
    ELSE LET \* vkQueueSubmit: the slot's work is pending until the GPU completes it;
             \* vkQueuePresentKHR answers env.present
             n1 == [n EXCEPT !.inFlight = @ \cup {b.m_CurrentFrame},
                             !.presented = env.present]
             recreate == \/ env.present \in {"VK_ERROR_OUT_OF_DATE_KHR", "VK_SUBOPTIMAL_KHR"}
                         \/ b.m_FramebufferResized
             r == IF recreate
                  THEN VkRecreateSwapchain([b EXCEPT !.m_FramebufferResized = FALSE], n1, env)
                  ELSE Ret(b, n1, "SUCCESS")
         IN  IF ~recreate /\ env.present # "VK_SUCCESS"
             THEN Ret(b, n1, "UNKNOWN_ERROR")
             ELSE IF r.result = "CRASH" THEN r
             ELSE IF ModuloTraps(b, env) THEN Crash(r.be, r.nat)
             ELSE Ret([r.be EXCEPT
                          !.m_CurrentFrame =
                              Remainder(@ + 1, r.be.m_Config.max_frames_in_flight),
                          !.frames_rendered = @ + 1],
                      r.nat, "SUCCESS")

\* VulkanBackend::HandleResize
VkHandleResize(b, n, width, height) ==
    Ret([b EXCEPT !.m_FramebufferResized = TRUE], n, "SUCCESS")

(***************************************************************************)
(* DirectX12Backend (a stub: every step logs and succeeds)                 *)
(***************************************************************************)
BackBufferCount == 3
MaxFenceValue == 2          \* bound on the stub's m_FenceValue counter

\* DirectX12Backend::LogNotImplemented: one static flag for every function
\* and every object
LogNotImplemented(n, function_name) ==
    IF n.first_warning
    THEN [n EXCEPT !.first_warning = FALSE, !.warnings = Append(@, function_name)]
    ELSE n

\* the LogNotImplemented calls of the functions a stub operation runs, in order
LogEach(n, names) ==
    LET F[i \in 0..Len(names)] ==
            IF i = 0 THEN n ELSE LogNotImplemented(F[i - 1], names[i])
    IN  F[Len(names)]

\* a WaitIdle without its `if (!m_IsInitialized) return;`
DxWaitIdleUnguarded(b, n) ==
    Ret([b EXCEPT !.m_FenceValue = @ + 1], LogEach(n, <<"WaitIdle", "WaitForGPU">>), "void")

\* DirectX12Backend::WaitIdle -> WaitForGPU
DxWaitIdle(b, n) ==
    IF ~b.m_IsInitialized THEN Ret(b, n, "void")
    ELSE Ret([b EXCEPT !.m_FenceValue = @ + 1],
             LogEach(n, <<"WaitIdle", "WaitForGPU">>), "void")

\* DirectX12Backend::Initialize (the six Create steps log and succeed)
DxInitialize(b, n, config, window, env) ==
    IF b.m_IsInitialized THEN Ret(b, n, "SUCCESS")
    ELSE Ret([b EXCEPT !.m_Config = config, !.m_Window = window,
                       !.m_IsInitialized = TRUE],
             LogEach(n, << "Initialize", "CreateDevice", "CreateCommandQueue",
                           "CreateSwapChain", "CreateRenderTargets",
                           "CreateCommandObjects", "CreateSynchronizationObjects" >>),
             "SUCCESS")

\* DirectX12Backend::Shutdown
DxShutdown(b, n) ==
    IF ~b.m_IsInitialized THEN Ret(b, n, "void")
    ELSE Bind(DxWaitIdle(b, LogNotImplemented(n, "Shutdown")),
              LAMBDA r : Ret([r.be EXCEPT !.m_IsInitialized = FALSE],
                             LogNotImplemented(r.nat, "CleanupRenderTargets"), "void"))

\* a BeginFrame of the stub without the test of m_IsInitialized
DxBeginFrameUnguarded(b, n) ==
    Ret([b EXCEPT !.frames_rendered = @ + 1], LogNotImplemented(n, "BeginFrame"), "SUCCESS")

\* DirectX12Backend::BeginFrame
DxBeginFrame(b, n) ==
    IF ~b.m_IsInitialized THEN Ret(b, n, "FAILED_INITIALIZATION")
    ELSE Ret([b EXCEPT !.frames_rendered = @ + 1],
             LogNotImplemented(n, "BeginFrame"), "SUCCESS")

\* DirectX12Backend::EndFrame
DxEndFrame(b, n) ==
    IF ~b.m_IsInitialized THEN Ret(b, n, "FAILED_INITIALIZATION")
    ELSE Ret(b, LogNotImplemented(n, "EndFrame"), "SUCCESS")

\* DirectX12Backend::Present
DxPresent(b, n) ==
    IF ~b.m_IsInitialized THEN Ret(b, n, "FAILED_INITIALIZATION")
    ELSE Ret([b EXCEPT !.m_CurrentBackBuffer = (@ + 1) % BackBufferCount],
             LogNotImplemented(n, "Present"), "SUCCESS")

\* DirectX12Backend::HandleResize
DxHandleResize(b, n, width, height) ==
    Ret(b, LogNotImplemented(n, "HandleResize"), "SUCCESS")

\* DirectX12Backend::RecreateSwapchain
DxRecreateSwapchain(b, n) ==
    Bind(DxWaitIdle(b, LogNotImplemented(n, "RecreateSwapchain")),
         LAMBDA r : Ret(r.be,
                        LogEach(r.nat, << "CleanupRenderTargets", "CreateSwapChain",
                                          "CreateRenderTargets" >>),
                        "SUCCESS"))

(***************************************************************************)
(* The backend contract: virtual dispatch on the object's class            *)
(***************************************************************************)
\* a GraphicsAPI value that is none of the enumerators (a cast integer)
UnknownAPI == "UNKNOWN_API"

\* a factory that resolves AUTO_SELECT to the DirectX12 stub
CreateBackendAutoStub(api) ==
    CASE api = "VULKAN"      -> NewBackend("Vulkan")
      [] api = "DIRECTX12"   -> NewBackend("DirectX12")
      [] api = "AUTO_SELECT" -> NewBackend("DirectX12")
      [] OTHER               -> NoBackend

\* CreateBackend (the factory): the class of the backend made for an API; the
\* _WIN32 and the other branch of AUTO_SELECT are the same statement
CreateBackend(api) ==
    CASE api = "VULKAN"      -> NewBackend("Vulkan")
      [] api = "DIRECTX12"   -> NewBackend("DirectX12")
      [] api = "AUTO_SELECT" -> NewBackend("Vulkan")
      [] OTHER               -> NoBackend

Initialize(b, n, config, window, env) ==
    IF b.kind = "Vulkan" THEN VkInitialize(b, n, config, window, env)
    ELSE DxInitialize(b, n, config, window, env)

Shutdown(b, n, oob) ==
    IF b.kind = "Vulkan" THEN VkShutdown(b, n, oob) ELSE DxShutdown(b, n)

BeginFrame(b, n, env) ==
    IF b.kind = "Vulkan" THEN VkBeginFrame(b, n, env) ELSE DxBeginFrame(b, n)

EndFrame(b, n, env) ==
    IF b.kind = "Vulkan" THEN VkEndFrame(b, n, env) ELSE DxEndFrame(b, n)

Present(b, n, env) ==
    IF b.kind = "Vulkan" THEN VkPresent(b, n, env) ELSE DxPresent(b, n)

HandleResize(b, n, width, height) ==
    IF b.kind = "Vulkan" THEN VkHandleResize(b, n, width, height)
    ELSE DxHandleResize(b, n, width, height)

RecreateSwapchain(b, n, env) ==
    IF b.kind = "Vulkan" THEN VkRecreateSwapchain(b, n, env) ELSE DxRecreateSwapchain(b, n)

WaitIdle(b, n) ==
    IF b.kind = "Vulkan" THEN VkWaitIdle(b, n) ELSE DxWaitIdle(b, n)

\* the destructor of either class calls Shutdown
DestroyBackend(b, n, oob) == Shutdown(b, n, oob)

(***************************************************************************)
(* What the native layer may answer                                        *)
(***************************************************************************)
FitDevice ==
    [ deviceType |-> "DISCRETE", maxImageDimension2D |-> 4096,
      queueFamilies |-> <<[graphics |-> TRUE, present |-> TRUE]>>,
      extensions |-> {SwapchainExtension}, formatCount |-> 1, presentModeCount |-> 1,
      geometryShader |-> TRUE, samplerAnisotropy |-> TRUE ]

\* a native layer on which every call succeeds
QuietInitEnv ==
    [ layers |-> TRUE, instance |-> TRUE, messenger |-> "ok", surface |-> TRUE,
      devices |-> <<FitDevice>> ]

\* Initialize stops at the first step that fails, so the answers that matter
\* are: every call succeeds, or one of them fails
InitEnvs ==
    { QuietInitEnv,
      [QuietInitEnv EXCEPT !.layers = FALSE],
      [QuietInitEnv EXCEPT !.instance = FALSE],
      [QuietInitEnv EXCEPT !.messenger = "failed"],
      [QuietInitEnv EXCEPT !.surface = FALSE],
      [QuietInitEnv EXCEPT !.devices = <<>>] }

FrameEnvs ==
    [ undefined : {"proceed", "trap", "crash"},
      acquire   : AcquireResults,
      present   : AcquireResults,
      beginCmd  : BOOLEAN,
      endCmd    : BOOLEAN,
      submit    : BOOLEAN,
      \* within a frame the window is not minimized
      sizes     : { << <<800, 600>> >> } ]

\* a native layer on which every frame call is carried out and succeeds
QuietEnv ==
    [ undefined |-> "proceed", acquire |-> "VK_SUCCESS", present |-> "VK_SUCCESS",
      beginCmd |-> TRUE, endCmd |-> TRUE, submit |-> TRUE, sizes |-> << <<800, 600>> >> ]

\* the process dying in the first native call, whatever the other answers
CrashEnv == [QuietEnv EXCEPT !.undefined = "crash"]

\* the answers each frame operation asks for
BeginFrameEnvs ==
    { e \in FrameEnvs : /\ e.undefined = "proceed" /\ e.present = "VK_SUCCESS"
                        /\ e.endCmd /\ e.submit
                        /\ e.acquire \in {"VK_SUCCESS", "VK_SUBOPTIMAL_KHR"} \/ e.beginCmd }
    \cup {CrashEnv}

EndFrameEnvs ==
    { e \in FrameEnvs : /\ e.undefined = "proceed" /\ e.acquire = "VK_SUCCESS"
                        /\ e.present = "VK_SUCCESS" /\ e.beginCmd /\ e.submit }
    \cup {CrashEnv}

PresentEnvs ==
    { e \in FrameEnvs : /\ \/ e.undefined = "proceed"
                           \/ e.undefined = "trap" /\ be.m_Config.max_frames_in_flight = 0
                        /\ e.acquire = "VK_SUCCESS"
                        /\ e.beginCmd /\ e.endCmd
                        /\ e.submit \/ e.present = "VK_SUCCESS" }
    \cup {CrashEnv}

OutOfBounds == {"null", "garbage", "crash"}

(***************************************************************************)
(* GraphicsFrontend.  Its operations work on a world w: the frontend       *)
(* object fe, its backend be (NoBackend for a null m_Backend), the native  *)
(* graphics layer nat, the window system glfw, the state changes trans     *)
(* that SetState has logged during the call, and the value returned.       *)
(***************************************************************************)
FrontendStates ==
    {"UNINITIALIZED", "INITIALIZING", "RUNNING", "PAUSED", "SHUTTING_DOWN", "ERROR_STATE"}

WindowHandle == 1

\* the framebuffer sizes a resize event may carry (a minimized window: 0 x 0)
FramebufferSizes == { <<0, 0>>, <<800, 600>> }

\* the frontend calls out of itself (the window system, the backend's
\* HandleResize, an application callback): recorded in the world, in order
Outcall(w, call, width, height) ==
    [w EXCEPT !.calls = Append(@, [call |-> call, width |-> width, height |-> height])]

\* a frontend as its constructor leaves it
NewFrontend(config) ==
    [ m_Config          |-> config,
      m_Window          |-> NullHandle,
      m_State           |-> "UNINITIALIZED",
      m_ShouldClose     |-> FALSE,
      m_ResizeRequested |-> FALSE,
      m_NewWidth        |-> 0,
      m_NewHeight       |-> 0,
      frame_count       |-> 0 ]

\* the window system with no window: whether a window exists, its close flag,
\* whether it was created with the GLFW_NO_API client hint
NoWindow == [window |-> FALSE, shouldClose |-> FALSE, noApi |-> FALSE]

\* what the window system may answer to CreateWindow
WindowAnswers == {"ok", "glfwInitFails", "windowFails"}

\* GraphicsFrontend::SetState
SetState(w, state) ==
    IF w.fe.m_State # state
    THEN [w EXCEPT !.fe.m_State = state, !.trans = Append(@, <<w.fe.m_State, state>>)]
    ELSE w

\* a CreateWindow that reports success whatever the window system answered
CreateWindowAlwaysTrue(w, answer) == [w EXCEPT !.result = TRUE]

\* GraphicsFrontend::CreateWindow
CreateWindow(w, answer) ==
    IF answer = "glfwInitFails" THEN [w EXCEPT !.result = FALSE]
    ELSE IF answer = "windowFails"
    THEN [w EXCEPT !.fe.m_Window = NullHandle, !.result = FALSE]
    ELSE [w EXCEPT !.fe.m_Window = WindowHandle,
                   !.glfw = [window |-> TRUE, shouldClose |-> FALSE,
                             noApi |-> w.fe.m_Config.preferred_api = "VULKAN"],
                   !.result = TRUE]

\* GraphicsFrontend::InitializeBackend
InitializeBackend(w, env) ==
    IF CreateBackend(w.fe.m_Config.preferred_api) = NoBackend
    THEN [w EXCEPT !.be = NoBackend, !.result = FALSE]
    ELSE Bind(Initialize(CreateBackend(w.fe.m_Config.preferred_api), w.nat,
                         w.fe.m_Config, w.fe.m_Window, env),
              LAMBDA r :
                IF r.result # "SUCCESS"
                THEN \* m_Backend.reset(): the destructor calls Shutdown
                     [w EXCEPT !.be = NoBackend,
                               !.nat = DestroyBackend(r.be, r.nat, "null").nat,
                               !.result = FALSE]
                ELSE [w EXCEPT !.be = r.be, !.nat = r.nat, !.result = TRUE])

\* GraphicsFrontend::Initialize
FrontendInitialize(w, answer, env) ==
    IF w.fe.m_State # "UNINITIALIZED"
    THEN [w EXCEPT !.result = w.fe.m_State \in {"RUNNING", "PAUSED"}]
    ELSE Bind(CreateWindow(SetState(w, "INITIALIZING"), answer),
              LAMBDA w1 :
                IF ~w1.result THEN SetState(w1, "ERROR_STATE")
                ELSE Bind(InitializeBackend(w1, env),
                          LAMBDA w2 :
                            IF ~w2.result THEN SetState(w2, "ERROR_STATE")
                            ELSE SetState(w2, "RUNNING")))

\* GraphicsFrontend::CleanupBackend
CleanupBackend(w, oob) ==
    IF w.be = NoBackend THEN w
    ELSE Bind(Shutdown(w.be, w.nat, oob),
              LAMBDA r :
                IF r.result = "CRASH" THEN [w EXCEPT !.nat = r.nat]
                ELSE [w EXCEPT !.be = NoBackend,
                               !.nat = DestroyBackend(r.be, r.nat, oob).nat])

\* GraphicsFrontend::CleanupWindow
CleanupWindow(w) ==
    IF w.fe.m_Window = NullHandle THEN w
    ELSE [w EXCEPT !.fe.m_Window = NullHandle, !.glfw = NoWindow]

\* a Shutdown that destroys the window and leaves the backend
FrontendShutdownWindowOnly(w, oob) ==
    IF w.fe.m_State = "UNINITIALIZED" THEN w
    ELSE SetState(CleanupWindow(SetState(w, "SHUTTING_DOWN")), "UNINITIALIZED")

\* GraphicsFrontend::Shutdown
FrontendShutdown(w, oob) ==
    IF w.fe.m_State = "UNINITIALIZED" THEN w
    ELSE Bind(CleanupBackend(SetState(w, "SHUTTING_DOWN"), oob),
              LAMBDA w1 :
                IF w1.nat.crashed THEN w1
                ELSE SetState(CleanupWindow(w1), "UNINITIALIZED"))

\* a Pause without its `m_State == RUNNING` test
PauseUnguarded(w) == SetState(w, "PAUSED")

\* a Resume without its `m_State == PAUSED` test
ResumeUnguarded(w) == SetState(w, "RUNNING")

\* GraphicsFrontend::Pause
Pause(w) == IF w.fe.m_State = "RUNNING" THEN SetState(w, "PAUSED") ELSE w

\* GraphicsFrontend::Resume
Resume(w) == IF w.fe.m_State = "PAUSED" THEN SetState(w, "RUNNING") ELSE w

\* GraphicsFrontend::RequestShutdown
RequestShutdown(w) == [w EXCEPT !.fe.m_ShouldClose = TRUE]

\* GraphicsFrontend::ShouldClose
ShouldClose(f, g) == f.m_ShouldClose \/ (f.m_Window # NullHandle /\ g.shouldClose)

\* what an application callback may call on the frontend
CallbackOps == {"none", "Pause", "Resume", "RequestShutdown"}

CallbackCalls(w, op) ==
    CASE op = "Pause"           -> Pause(w)
      [] op = "Resume"          -> Resume(w)
      [] op = "RequestShutdown" -> RequestShutdown(w)
      [] OTHER                  -> w

IsResize(ev) == ev.kind = "resize"

\* a window event
WindowEvents ==
    { [kind |-> "close", width |-> 0, height |-> 0] }
    \cup { [kind |-> "resize", width |-> d[1], height |-> d[2]] : d \in FramebufferSizes }

\* the window events one glfwPollEvents delivers, in order: none, one, or two
\* resizes of different sizes
EventBatches ==
    { <<>> } \cup { <<e>> : e \in WindowEvents }
    \cup ({ <<e1, e2>> : e1, e2 \in { e \in WindowEvents : IsResize(e) } }
             \ { <<e, e>> : e \in WindowEvents })

\* GraphicsFrontend::WindowCloseCallback, after the window's close flag is set
WindowCloseCallback(w) == RequestShutdown([w EXCEPT !.glfw.shouldClose = TRUE])

\* GraphicsFrontend::FramebufferSizeCallback
FramebufferSizeCallback(w, width, height) ==
    [w EXCEPT !.fe.m_ResizeRequested = TRUE, !.fe.m_NewWidth = width,
              !.fe.m_NewHeight = height]

Deliver(w, ev) ==
    CASE ev.kind = "close"  -> WindowCloseCallback(w)
      [] ev.kind = "resize" -> FramebufferSizeCallback(w, ev.width, ev.height)
      [] OTHER              -> w

\* glfwPollEvents: the window callbacks run for each event of the batch in turn
RECURSIVE PollEvents(_, _, _)
PollEvents(w, batch, i) ==
    IF i > Len(batch) THEN w
    ELSE Bind(Deliver(w, batch[i]), LAMBDA w1 : PollEvents(w1, batch, i + 1))

\* the size of the latest resize event of a batch, if it has one
LatestResize(batch) ==
    IF SelectSeq(batch, IsResize) = <<>> THEN <<>>
    ELSE << << SelectSeq(batch, IsResize)[Len(SelectSeq(batch, IsResize))].width,
               SelectSeq(batch, IsResize)[Len(SelectSeq(batch, IsResize))].height >> >>

\* GraphicsFrontend::ProcessEvents: glfwPollEvents, then the input callback
ProcessEvents(w, batch, op) ==
    Bind(PollEvents(Outcall(w, "glfwPollEvents", 0, 0), batch, 1),
         LAMBDA w1 : CallbackCalls(Outcall(w1, "inputCallback", 0, 0), op))

\* an UpdateTiming that leaves the frame statistics alone
UpdateTimingNoCount(w) == Outcall(w, "UpdateTiming", 0, 0)

\* GraphicsFrontend::UpdateTiming -> UpdateFrameStats
UpdateTiming(w) == [Outcall(w, "UpdateTiming", 0, 0) EXCEPT !.fe.frame_count = @ + 1]

\* a HandleResize that forwards height and width the other way round
FrontendHandleResizeSwapped(w, op) ==
    IF ~w.fe.m_ResizeRequested THEN w
    ELSE Bind(Outcall(w, "resizeCallback", w.fe.m_NewHeight, w.fe.m_NewWidth),
              LAMBDA w1 : [CallbackCalls(w1, op) EXCEPT !.fe.m_ResizeRequested = FALSE])

\* GraphicsFrontend::HandleResize; op is what the resize callback calls
FrontendHandleResize(w, op) ==
    IF ~w.fe.m_ResizeRequested THEN w
    ELSE Bind(IF w.be = NoBackend THEN w
              ELSE [Outcall(w, "Backend.HandleResize", w.fe.m_NewWidth, w.fe.m_NewHeight)
                        EXCEPT !.be = HandleResize(w.be, w.nat, w.fe.m_NewWidth,
                                                   w.fe.m_NewHeight).be],
              LAMBDA w1 :
                [CallbackCalls(Outcall(w1, "resizeCallback", w1.fe.m_NewWidth,
                                       w1.fe.m_NewHeight), op)
                    EXCEPT !.fe.m_ResizeRequested = FALSE])

\* GraphicsFrontend::Update: the update callback; op is what it calls
Update(w, op) == CallbackCalls(Outcall(w, "updateCallback", 0, 0), op)

\* Render: `if (m_RenderCallback) m_RenderCallback();`; op is what it calls
InvokeRenderCallback(w, op) == CallbackCalls(Outcall(w, "renderCallback", 0, 0), op)

\* a Run that enters the main loop whatever the state
RunEntersAlways(f) == TRUE

\* GraphicsFrontend::Run: the main loop is entered only in state RUNNING
RunEnters(f) == f.m_State = "RUNNING"

(***************************************************************************)
(* One backend driven through its public contract, with the GPU completing *)
(* submitted work asynchronously.                                          *)
(***************************************************************************)
\* the latest frontend call or loop step: its name, what it returned, the state
\* it started in, the state changes it logged; for a Run that returned, whether
\* ShouldClose() held when the loop ended
NoFrontendCall ==
    [op |-> "none", result |-> "none", from |-> "UNINITIALIZED", trans |-> <<>>,
     closeHeld |-> FALSE, calls |-> <<>>, changed |-> FALSE, pendingBefore |-> FALSE,
     initLog |-> <<>>]

LoopHistInit ==
    [ iterBad   |-> FALSE,    \* a frame operation failed in this iteration
      prevBad   |-> FALSE,    \* a frame operation failed in the iteration before
      nextBegin |-> "none",   \* BeginFrame of an iteration after a failed one:
                              \* "returned" or "crashed"
      iter      |-> <<>>,     \* the calls made so far in this iteration, in order
      polled    |-> <<>>,     \* the size of the latest resize event polled in this
                              \* iteration, if there was one
      startCount    |-> 0,    \* the frontend's frame_count when the iteration began
      startRendered |-> 0,    \* the backend's frames_rendered when the iteration began
      skipped   |-> FALSE ]   \* BeginFrame found the surface outdated in this iteration

\* the configurations a caller hands to a backend of a class
ConfigsFor(kind) ==
    { c \in Configs : c.preferred_api = IF kind = "Vulkan" THEN "VULKAN" ELSE "DIRECTX12" }

\* the latest call: its name, what it returned, whether the backend was
\* initialized when it was made, whether it changed the backend or a native
\* object, the device waits and swapchain recreations it made, whether
\* vkQueuePresentKHR reported the surface outdated or suboptimal, and the resize
\* flag and the current frame a Present found
NoCall ==
    [ op |-> "none", result |-> "none", wasInitialized |-> FALSE, changed |-> FALSE,
      deviceWaits |-> 0, recreations |-> 0, presented |-> FALSE, outdated |-> FALSE,
      resizedBefore |-> FALSE, frameBefore |-> 0,
      touched |-> {}, natTouched |-> {}, renderedBefore |-> 0, recreateLog |-> <<>> ]

\* the members of the backend a call left with another value (recorded for
\* HandleResize and RecreateSwapchain)
Touched(b, after) == { f \in DOMAIN b : after[f] # b[f] }

\* the kinds of native object a call created or destroyed
NativeTouched(n, after) ==
    { k \in NativeKinds : \/ after.created[k] # n.created[k]
                          \/ { o \in after.live : o[1] = k } # { o \in n.live : o[1] = k } }

Called(op, r) ==
    [ op |-> op, result |-> r.result, wasInitialized |-> be.m_IsInitialized,
      changed |-> r.be # be \/ r.nat # nat,
      deviceWaits |-> r.nat.deviceWaits, recreations |-> r.nat.recreations,
      presented |-> r.nat.presented # "none",
      outdated |-> r.nat.presented \in {"VK_ERROR_OUT_OF_DATE_KHR", "VK_SUBOPTIMAL_KHR"},
      resizedBefore |-> op = "Present" /\ be.m_FramebufferResized,
      frameBefore |-> IF op = "Present" THEN be.m_CurrentFrame ELSE 0,
      touched |-> IF op \in {"HandleResize", "RecreateSwapchain"}
                  THEN Touched(be, r.be) ELSE {},
      natTouched |-> IF op \in {"HandleResize", "RecreateSwapchain"}
                     THEN NativeTouched(nat, r.nat) ELSE {},
      renderedBefore |-> be.frames_rendered, recreateLog |-> r.nat.recreateLog ]

HistInit ==
    [ presentsOk     |-> 0,      \* Presents that returned SUCCESS since Initialize succeeded
      initOk         |-> FALSE,  \* an Initialize call has initialized the backend
      lastInitFailed |-> FALSE ] \* the latest Initialize call failed

\* bounds on the counters that grow without limit
WithinBounds(r) ==
    /\ r.nat.created["instance"] <= MaxInits
    /\ r.be.frames_rendered <= MaxFrames
    /\ r.be.m_FenceValue <= MaxFenceValue
    /\ r.be.m_CurrentFrame < MaxFramesInFlight

BackendInit ==
    /\ be \in { CreateBackend(api) : api \in {"VULKAN", "DIRECTX12"} }
    /\ nat = NativeInit
    /\ lastCall = NoCall
    /\ hist = HistInit
    /\ pickDevices = <<>>
    /\ pickOut = NotPicked
    /\ fe = NewFrontend(DefaultConfig)
    /\ glfw = NoWindow
    /\ pc = "idle"
    /\ fcall = NoFrontendCall
    /\ fhist = LoopHistInit
    /\ cfg = NewGraphicsConfig
    /\ cfgCall = NoConfigCall
    /\ engine = NoEngine
    /\ erun = NoEngineRun

Alive == ~nat.crashed

\* the shutdown log starts anew with an Initialize call that runs the steps
NewCallLog(b, n) ==
    IF b.m_IsInitialized THEN n ELSE [n EXCEPT !.shutdownLog = <<>>]

\* the native layer answers only the calls that reach it: a call on a backend
\* that makes no native call (the stub, or Vulkan in the state where the
\* operation returns at once) sees one fixed answer
\* the configurations handed to an Initialize call; an initialized backend
\* returns before it reads the configuration, so two that differ suffice there
InitConfigs ==
    IF be.m_IsInitialized
    THEN { c \in ConfigsFor(be.kind) : ~c.enable_validation /\ c.max_frames_in_flight > 0 }
    ELSE ConfigsFor(be.kind)

InitAnswers(config) ==
    IF be.kind = "Vulkan" /\ ~be.m_IsInitialized
    THEN { e \in InitEnvs :
             \/ e = QuietInitEnv
             \* a step that fails returns before max_frames_in_flight is read: the
             \* failures are tried with one value of it
             \/ /\ config.max_frames_in_flight = MaxFramesInFlight
                \* the layers and the messenger are asked for only with validation
                /\ \/ config.enable_validation
                   \/ e.layers = QuietInitEnv.layers /\ e.messenger = QuietInitEnv.messenger }
    ELSE {QuietInitEnv}

\* the answers an explicit RecreateSwapchain asks for: the sizes, or the death
\* of the process
RecreateEnvs ==
    IF be.kind = "Vulkan"
    THEN IF be.m_Window = NullHandle THEN {CrashEnv}
         ELSE { [QuietEnv EXCEPT !.sizes = sizes] : sizes \in SizeReads }
    ELSE {QuietEnv}

FrameAnswers(envs) ==
    IF be.kind = "Vulkan" /\ be.m_IsInitialized THEN envs ELSE {QuietEnv}

BInitialize ==
    /\ Alive
    /\ \E config \in InitConfigs : \E env \in InitAnswers(config) :
        \E r \in { Initialize(be, NewCallLog(be, nat), config, WindowHandle, env) } :
            /\ WithinBounds(r)
            /\ be' = r.be
            /\ nat' = Settle(r.nat)
            /\ lastCall' = Called("Initialize", r)
            /\ hist' = IF be.m_IsInitialized THEN hist
                       ELSE [hist EXCEPT !.presentsOk = 0,
                                         !.initOk = @ \/ r.result = "SUCCESS",
                                         !.lastInitFailed = r.result # "SUCCESS"]
    /\ UNCHANGED <<pickVars, cfgVars, engVars, feVars>>

BShutdown ==
    /\ Alive
    /\ WaitIdleReturns(be, nat)
    /\ \E oob \in IF be.kind = "Vulkan" /\ be.m_IsInitialized THEN OutOfBounds ELSE {"null"} :
        \E r \in { Shutdown(be, nat, oob) } :
            /\ WithinBounds(r)
            /\ be' = r.be
            /\ nat' = Settle(r.nat)
            /\ lastCall' = Called("Shutdown", r)
    /\ UNCHANGED <<hist, pickVars, cfgVars, engVars, feVars>>

FrameOp(op, r) ==
    /\ WithinBounds(r)
    /\ hist.presentsOk < MaxFrames \/ op # "Present"
    /\ be' = r.be
    /\ nat' = Settle(r.nat)
    /\ lastCall' = Called(op, r)
    /\ hist' = [hist EXCEPT
                  !.presentsOk = IF op = "Present" /\ r.result = "SUCCESS" THEN @ + 1 ELSE @]
    /\ UNCHANGED <<pickVars, cfgVars, engVars, feVars>>

BBeginFrame ==
    /\ Alive
    /\ BeginFrameReturns(be, nat)
    /\ \E env \in FrameAnswers(BeginFrameEnvs) :
        \E r \in { BeginFrame(be, nat, env) } : FrameOp("BeginFrame", r)

BEndFrame ==
    /\ Alive
    /\ \E env \in FrameAnswers(EndFrameEnvs) :
        \E r \in { EndFrame(be, nat, env) } : FrameOp("EndFrame", r)

BPresent ==
    /\ Alive
    /\ \E env \in FrameAnswers(PresentEnvs) :
        \E r \in { Present(be, nat, env) } : FrameOp("Present", r)

BHandleResize ==
    /\ Alive
    /\ \E size \in FramebufferSizes :
        \E r \in { HandleResize(be, nat, size[1], size[2]) } :
            /\ be' = r.be
            /\ nat' = Settle(r.nat)
            /\ lastCall' = Called("HandleResize", r)
    /\ UNCHANGED <<hist, pickVars, cfgVars, engVars, feVars>>

BRecreateSwapchain ==
    /\ Alive
    /\ WaitIdleReturns(be, nat)
    /\ \E env \in RecreateEnvs :
        \E r \in { RecreateSwapchain(be, nat, env) } :
           /\ RecreateReturns(be, env)
           /\ WithinBounds(r)
           /\ be' = r.be
           /\ nat' = Settle(r.nat)
           /\ lastCall' = Called("RecreateSwapchain", r)
    /\ UNCHANGED <<hist, pickVars, cfgVars, engVars, feVars>>

BWaitIdle ==
    /\ Alive
    /\ WaitIdleReturns(be, nat)
    /\ \E r \in { WaitIdle(be, nat) } :
           /\ WithinBounds(r)
           /\ be' = r.be
           /\ nat' = Settle(r.nat)
           /\ lastCall' = Called("WaitIdle", r)
    /\ UNCHANGED <<hist, pickVars, cfgVars, engVars, feVars>>

\* the GPU completes the work submitted for slot k and signals the slot's fence
GpuComplete ==
    /\ Alive
    /\ \E k \in nat.inFlight :
        nat' = [nat EXCEPT !.inFlight = @ \ {k},
                           !.signalled = @ \cup SlotFences(be, k)]
    /\ UNCHANGED <<be, lastCall, hist, pickVars, cfgVars, engVars, feVars>>

BackendNext ==
    \/ BInitialize
    \/ BShutdown
    \/ BBeginFrame
    \/ BEndFrame
    \/ BPresent
    \/ BHandleResize
    \/ BRecreateSwapchain
    \/ BWaitIdle
    \/ GpuComplete

SpecBackend == BackendInit /\ [][BackendNext]_vars

(***************************************************************************)
(* Physical-device selection on every enumeration of devices               *)
(***************************************************************************)
PickInit ==
    /\ pickDevices \in DeviceLists
    /\ pickOut = NotPicked
    /\ be = NoBackend
    /\ nat = NativeInit
    /\ lastCall = NoCall
    /\ hist = HistInit
    /\ fe = NewFrontend(DefaultConfig)
    /\ glfw = NoWindow
    /\ pc = "idle"
    /\ fcall = NoFrontendCall
    /\ fhist = LoopHistInit
    /\ cfg = NewGraphicsConfig
    /\ cfgCall = NoConfigCall
    /\ engine = NoEngine
    /\ erun = NoEngineRun

DoPickPhysicalDevice ==
    /\ pickOut = NotPicked
    /\ pickOut' = PickPhysicalDevice(pickDevices)
    /\ UNCHANGED <<pickDevices, beVars, feVars, cfgVars, engVars>>

SpecPick == PickInit /\ [][DoPickPhysicalDevice]_vars

(***************************************************************************)
(* GraphicsFrontend driving the backend it owns: public calls made outside *)
(* Run, and inside Run the steps of MainLoop with the window's events and  *)
(* the application's callbacks.                                            *)
(***************************************************************************)
MaxLoops == 2       \* main-loop iterations over a run of the model

World ==
    [fe |-> fe, be |-> be, nat |-> nat, glfw |-> glfw, trans |-> <<>>, result |-> TRUE,
     calls |-> <<>>]

\* the latest call or loop step: also the calls it made out of the frontend,
\* whether it changed the frontend, its backend, the window or a native object,
\* and whether a resize was pending when it began
FrontendCalled(op, result, w) ==
    [op |-> op, result |-> result, from |-> fe.m_State, trans |-> w.trans,
     closeHeld |-> FALSE, calls |-> w.calls,
     changed |-> w.fe # fe \/ w.be # be \/ w.glfw # glfw \/ Settle(w.nat) # nat,
     pendingBefore |-> fe.m_ResizeRequested, initLog |-> w.nat.initLog]

\* the calls of a loop step join the record of the iteration
IterCalls(w) ==
    [fhist EXCEPT !.iter = @ \o [i \in 1..Len(w.calls) |-> w.calls[i].call]]

Commit(w, op, result) ==
    /\ w.nat.created["instance"] <= MaxInits
    /\ fe' = w.fe
    /\ be' = w.be
    /\ nat' = Settle(w.nat)
    /\ glfw' = w.glfw
    /\ fcall' = FrontendCalled(op, result, w)

\* what the window system and the native layer answer to one Initialize
FrontendInitAnswers ==
    IF fe.m_State # "UNINITIALIZED" THEN {<<"ok", QuietInitEnv>>}
    ELSE { <<answer, QuietInitEnv>> : answer \in WindowAnswers }
         \cup IF CreateBackend(fe.m_Config.preferred_api).kind = "Vulkan"
              THEN { <<"ok", env>> : env \in InitEnvs }
              ELSE {}

\* the configurations a frontend is constructed with: the defaults, with each
\* preferred API and with a value outside the enumeration
FrontendConfigs ==
    { [DefaultConfig EXCEPT !.preferred_api = api] : api \in GraphicsAPI \cup {UnknownAPI} }

FrontendInit ==
    /\ fe \in { NewFrontend(config) : config \in FrontendConfigs }
    /\ glfw = NoWindow
    /\ pc = "idle"
    /\ fcall = NoFrontendCall
    /\ fhist = LoopHistInit
    /\ be = NoBackend
    /\ nat = NativeInit
    /\ lastCall = NoCall
    /\ hist = HistInit
    /\ pickDevices = <<>>
    /\ pickOut = NotPicked
    /\ cfg = NewGraphicsConfig
    /\ cfgCall = NoConfigCall
    /\ engine = NoEngine
    /\ erun = NoEngineRun

Outside == pc = "idle" /\ Alive

FInitialize ==
    /\ Outside
    /\ \E a \in FrontendInitAnswers :
        \E w \in { FrontendInitialize(World, a[1], a[2]) } :
            Commit(w, "Initialize", IF w.result THEN "true" ELSE "false")
    /\ UNCHANGED <<pc, fhist, lastCall, hist, pickVars, cfgVars, engVars>>

FShutdown ==
    /\ Outside
    /\ be = NoBackend \/ WaitIdleReturns(be, nat)
    /\ \E oob \in IF be.kind = "Vulkan" /\ be.m_IsInitialized THEN OutOfBounds ELSE {"null"} :
        \E w \in { FrontendShutdown(World, oob) } : Commit(w, "Shutdown", "void")
    /\ UNCHANGED <<pc, fhist, lastCall, hist, pickVars, cfgVars, engVars>>

FPause ==
    /\ Outside
    /\ \E w \in { Pause(World) } : Commit(w, "Pause", "void")
    /\ UNCHANGED <<pc, fhist, lastCall, hist, pickVars, cfgVars, engVars>>

FResume ==
    /\ Outside
    /\ \E w \in { Resume(World) } : Commit(w, "Resume", "void")
    /\ UNCHANGED <<pc, fhist, lastCall, hist, pickVars, cfgVars, engVars>>

FRequestShutdown ==
    /\ Outside
    /\ \E w \in { RequestShutdown(World) } : Commit(w, "RequestShutdown", "void")
    /\ UNCHANGED <<pc, fhist, lastCall, hist, pickVars, cfgVars, engVars>>

\* GraphicsFrontend::Run up to the first test of the loop condition
FRun ==
    /\ Outside
    /\ IF ~RunEnters(fe)
       THEN /\ fcall' = FrontendCalled("Run", "rejected", World)
            /\ pc' = "idle"
       ELSE /\ fcall' = FrontendCalled("Run", "looping", World)
            /\ pc' = "test"
    /\ fhist' = LoopHistInit
    /\ UNCHANGED <<fe, glfw, be, nat, lastCall, hist, pickVars, cfgVars, engVars>>

\* MainLoop: while (!ShouldClose() && m_State == RUNNING)
LoopTest ==
    /\ pc = "test" /\ Alive
    /\ IF ~ShouldClose(fe, glfw) /\ fe.m_State = "RUNNING"
       THEN /\ pc' = "events"
            /\ fhist' = [LoopHistInit EXCEPT
                            !.prevBad = fhist.iterBad, !.nextBegin = fhist.nextBegin,
                            !.startCount = fe.frame_count,
                            !.startRendered = be.frames_rendered]
            /\ UNCHANGED fcall
       ELSE /\ pc' = "idle"
            /\ fcall' = [FrontendCalled("Run", "returned", World) EXCEPT
                            !.closeHeld = ShouldClose(fe, glfw)]
            /\ fhist' = LoopHistInit
    /\ UNCHANGED <<fe, glfw, be, nat, lastCall, hist, pickVars, cfgVars, engVars>>

LoopProcessEvents ==
    /\ pc = "events" /\ Alive
    /\ \E batch \in EventBatches, op \in CallbackOps :
        \E w \in { ProcessEvents(World, batch, op) } :
            /\ Commit(w, "ProcessEvents", "void")
            /\ fhist' = [IterCalls(w) EXCEPT !.polled = LatestResize(batch)]
    /\ pc' = "timing"
    /\ UNCHANGED <<lastCall, hist, pickVars, cfgVars, engVars>>

LoopUpdateTiming ==
    /\ pc = "timing" /\ Alive
    /\ fe.frame_count < MaxLoops
    /\ \E w \in { UpdateTiming(World) } :
           Commit(w, "UpdateTiming", "void") /\ fhist' = IterCalls(w)
    /\ pc' = "resize"
    /\ UNCHANGED <<lastCall, hist, pickVars, cfgVars, engVars>>

\* HandleResize, then MainLoop's `if (m_State == RUNNING)`
LoopHandleResize ==
    /\ pc = "resize" /\ Alive
    /\ \E op \in IF fe.m_ResizeRequested THEN CallbackOps ELSE {"none"} :
        \E w \in { FrontendHandleResize(World, op) } :
            /\ Commit(w, "HandleResize", "void")
            /\ fhist' = IterCalls(w)
            /\ pc' = IF w.fe.m_State = "RUNNING" THEN "update" ELSE "test"
    /\ UNCHANGED <<lastCall, hist, pickVars, cfgVars, engVars>>

\* GraphicsFrontend::Update: the update callback
LoopUpdate ==
    /\ pc = "update" /\ Alive
    /\ \E op \in CallbackOps :
        \E w \in { Update(World, op) } :
            Commit(w, "Update", "void") /\ fhist' = IterCalls(w)
    /\ pc' = "begin"
    /\ UNCHANGED <<lastCall, hist, pickVars, cfgVars, engVars>>

\* a backend call of Render: what it leaves, and where Render goes next
RenderCall(op, r, next) ==
    /\ WithinBounds(r)
    /\ be' = r.be
    /\ nat' = Settle(r.nat)
    /\ pc' = IF r.result = "SUCCESS" THEN next ELSE "test"
    /\ fcall' = FrontendCalled(op, r.result, World)
    /\ fhist' = [fhist EXCEPT
                   !.iter = Append(@, op),
                   !.skipped = @ \/ (op = "BeginFrame" /\ r.nat.recreations > 0),
                   !.iterBad = @ \/ r.result # "SUCCESS",
                   !.nextBegin = IF op = "BeginFrame" /\ fhist.prevBad
                                 THEN IF r.result = "CRASH" THEN "crashed" ELSE "returned"
                                 ELSE @]
    /\ UNCHANGED <<fe, glfw, lastCall, hist, pickVars, cfgVars, engVars>>

\* Render: `if (!m_Backend) return;` then BeginFrame
RenderBeginFrame ==
    /\ pc = "begin" /\ Alive
    /\ IF be = NoBackend
       THEN /\ pc' = "test"
            /\ UNCHANGED <<fe, glfw, be, nat, fcall, fhist, lastCall, hist, pickVars, cfgVars, engVars>>
       ELSE /\ BeginFrameReturns(be, nat)
            /\ \E env \in FrameAnswers(BeginFrameEnvs) :
                \E r \in { BeginFrame(be, nat, env) } : RenderCall("BeginFrame", r, "render")

\* Render: the render callback
RenderCallback ==
    /\ pc = "render" /\ Alive
    /\ \E op \in CallbackOps :
        \E w \in { InvokeRenderCallback(World, op) } :
            Commit(w, "Render", "void") /\ fhist' = IterCalls(w)
    /\ pc' = "end"
    /\ UNCHANGED <<lastCall, hist, pickVars, cfgVars, engVars>>

RenderEndFrame ==
    /\ pc = "end" /\ Alive
    /\ \E env \in FrameAnswers(EndFrameEnvs) :
        \E r \in { EndFrame(be, nat, env) } : RenderCall("EndFrame", r, "present")

RenderPresent ==
    /\ pc = "present" /\ Alive
    /\ \E env \in FrameAnswers(PresentEnvs) :
        \E r \in { Present(be, nat, env) } : RenderCall("Present", r, "test")

Next ==
    \/ FInitialize
    \/ FShutdown
    \/ FPause
    \/ FResume
    \/ FRequestShutdown
    \/ FRun
    \/ LoopTest
    \/ LoopProcessEvents
    \/ LoopUpdateTiming
    \/ LoopHandleResize
    \/ LoopUpdate
    \/ RenderBeginFrame
    \/ RenderCallback
    \/ RenderEndFrame
    \/ RenderPresent
    \/ GpuComplete

Spec == FrontendInit /\ [][Next]_vars

(***************************************************************************)
(* A GraphicsConfig object under any sequence of at most MaxConfigCalls    *)
(* calls                                                                   *)
(***************************************************************************)
MaxConfigCalls == 3

\* the arguments the calls are made with
WindowDimensions == {0, 1, 1920}
Titles == {"", "Demo"}
FramesInFlight == {0, 1, 8, 9}
TargetFPS == {0, 29, 300, 301}

\* what a caller may assign through the mutable accessors
WindowWrites ==
    { <<"width", 0>>, <<"height", 0>>, <<"title", "">>, <<"vsync", FALSE>> }
RenderWrites ==
    { <<"max_frames_in_flight", 0>>, <<"max_frames_in_flight", 9>>,
      <<"present_mode", "MAILBOX">> }
PerformanceWrites == { <<"target_fps", 0>>, <<"target_fps", 29>>, <<"target_fps", 301>> }

\* the bound on the number of calls
MoreCalls == cfgCall.count < MaxConfigCalls

ConfigCall(op, arg, after, direct) ==
    /\ cfg' = after
    /\ cfgCall' = [ op |-> op, arg |-> arg, before |-> cfg,
                    repeated |-> cfgCall.op = op /\ cfgCall.arg = arg,
                    direct |-> cfgCall.direct \/ direct,
                    count |-> cfgCall.count + 1 ]
    /\ UNCHANGED <<pickVars, beVars, feVars, engVars>>

CSetWindowSize ==
    /\ MoreCalls
    /\ \E width, height \in WindowDimensions :
            ConfigCall("SetWindowSize", <<width, height>>, SetWindowSize(cfg, width, height), FALSE)

CSetWindowTitle ==
    /\ MoreCalls
    /\ \E title \in Titles : ConfigCall("SetWindowTitle", title, SetWindowTitle(cfg, title), FALSE)

CSetFullscreen ==
    /\ MoreCalls
    /\ \E b \in BOOLEAN : ConfigCall("SetFullscreen", b, SetFullscreen(cfg, b), FALSE)

CSetResizable ==
    /\ MoreCalls
    /\ \E b \in BOOLEAN : ConfigCall("SetResizable", b, SetResizable(cfg, b), FALSE)

CSetVSync ==
    /\ MoreCalls
    /\ \E b \in BOOLEAN : ConfigCall("SetVSync", b, SetVSync(cfg, b), FALSE)

CSetPreferredAPI ==
    /\ MoreCalls
    /\ \E api \in GraphicsAPI :
            ConfigCall("SetPreferredAPI", api, SetPreferredAPI(cfg, api), FALSE)

CSetPresentMode ==
    /\ MoreCalls
    /\ \E mode \in PresentMode :
            ConfigCall("SetPresentMode", mode, SetPresentMode(cfg, mode), FALSE)

CSetMSAA ==
    /\ MoreCalls
    /\ \E samples \in MSAASamples : ConfigCall("SetMSAA", samples, SetMSAA(cfg, samples), FALSE)

CSetValidationEnabled ==
    /\ MoreCalls
    /\ \E b \in BOOLEAN :
            ConfigCall("SetValidationEnabled", b, SetValidationEnabled(cfg, b), FALSE)

CSetMaxFramesInFlight ==
    /\ MoreCalls
    /\ \E frames \in FramesInFlight :
            ConfigCall("SetMaxFramesInFlight", frames, SetMaxFramesInFlight(cfg, frames), FALSE)

CSetTargetFPS ==
    /\ MoreCalls
    /\ \E fps \in TargetFPS : ConfigCall("SetTargetFPS", fps, SetTargetFPS(cfg, fps), FALSE)

CSetAdaptiveQuality ==
    /\ MoreCalls
    /\ \E b \in BOOLEAN : ConfigCall("SetAdaptiveQuality", b, SetAdaptiveQuality(cfg, b), FALSE)

CGetWindowConfig ==
    /\ MoreCalls
    /\ \E w \in WindowWrites :
            ConfigCall("GetWindowConfig", w, WriteMember(cfg, "m_WindowConfig", w[1], w[2]), TRUE)

CGetRenderConfig ==
    /\ MoreCalls
    /\ \E w \in RenderWrites :
            ConfigCall("GetRenderConfig", w, WriteMember(cfg, "m_RenderConfig", w[1], w[2]), TRUE)

CGetPerformanceConfig ==
    /\ MoreCalls
    /\ \E w \in PerformanceWrites :
            ConfigCall("GetPerformanceConfig", w,
                       WriteMember(cfg, "m_PerformanceConfig", w[1], w[2]), TRUE)

ConfigInit ==
    /\ cfg = NewGraphicsConfig
    /\ cfgCall = NoConfigCall
    /\ engine = NoEngine
    /\ erun = NoEngineRun
    /\ pickDevices = <<>>
    /\ pickOut = NotPicked
    /\ be = NoBackend
    /\ nat = NativeInit
    /\ lastCall = NoCall
    /\ hist = HistInit
    /\ fe = NewFrontend(DefaultConfig)
    /\ glfw = NoWindow
    /\ pc = "idle"
    /\ fcall = NoFrontendCall
    /\ fhist = LoopHistInit

ConfigNext ==
    \/ CSetWindowSize
    \/ CSetWindowTitle
    \/ CSetFullscreen
    \/ CSetResizable
    \/ CSetVSync
    \/ CSetPreferredAPI
    \/ CSetPresentMode
    \/ CSetMSAA
    \/ CSetValidationEnabled
    \/ CSetMaxFramesInFlight
    \/ CSetTargetFPS
    \/ CSetAdaptiveQuality
    \/ CGetWindowConfig
    \/ CGetRenderConfig
    \/ CGetPerformanceConfig

SpecConfig == ConfigInit /\ [][ConfigNext]_vars

(***************************************************************************)
(* Properties                                                              *)
(***************************************************************************)
ListedEdges ==
    { <<"UNINITIALIZED", "INITIALIZING">>, <<"INITIALIZING", "RUNNING">>,
      <<"INITIALIZING", "ERROR_STATE">>, <<"RUNNING", "PAUSED">>, <<"PAUSED", "RUNNING">>,
      <<"RUNNING", "SHUTTING_DOWN">>, <<"PAUSED", "SHUTTING_DOWN">>,
      <<"SHUTTING_DOWN", "UNINITIALIZED">> }

EdgesOf(trans) == { trans[i] : i \in 1..Len(trans) }

\* the logged changes lead from the state the call started in to the present one
TransIsPath ==
    LET t == fcall.trans
    IN  IF t = <<>> THEN fe.m_State = fcall.from
        ELSE /\ t[1][1] = fcall.from
             /\ t[Len(t)][2] = fe.m_State
             /\ \A i \in 1..(Len(t) - 1) : t[i][2] = t[i + 1][1]

(* C1 as the specification states it: every change of the frontend state follows
   one of the eight listed edges, and ERROR_STATE is terminal: no operation
   leaves it and Initialize returns false from it. *)
C1_ErrorStateTerminal ==
    /\ TransIsPath
    /\ EdgesOf(fcall.trans) \subseteq ListedEdges
    /\ fcall.from = "ERROR_STATE" =>
        /\ fe.m_State = "ERROR_STATE"
        /\ fcall.op = "Initialize" => fcall.result = "false"

(* C1, amended: every change of the frontend state follows one of the eight
   listed edges or ERROR_STATE -> SHUTTING_DOWN; ERROR_STATE is left only by
   Shutdown, every other operation leaves it unchanged, and Initialize returns
   false from it. *)
C1_StateEdges ==
    /\ TransIsPath
    /\ EdgesOf(fcall.trans) \subseteq ListedEdges \cup {<<"ERROR_STATE", "SHUTTING_DOWN">>}
    /\ (fcall.from = "ERROR_STATE" /\ fcall.op # "Shutdown") =>
        /\ fe.m_State = "ERROR_STATE"
        /\ fcall.op = "Initialize" => fcall.result = "false"

\* Shutdown has taken a frontend out of ERROR_STATE, back to UNINITIALIZED
C1_Witness ==
    /\ fcall.op = "Shutdown"
    /\ fcall.from = "ERROR_STATE"
    /\ fcall.trans = << <<"ERROR_STATE", "SHUTTING_DOWN">>,
                        <<"SHUTTING_DOWN", "UNINITIALIZED">> >>

(* C2: when one BeginFrame, EndFrame or Present fails in a main-loop iteration
   the frontend state is unchanged and the loop goes on to its next test, and
   the BeginFrame of the following iteration returns. *)
C2_SingleBadFrameTolerated ==
    /\ (fcall.op \in {"BeginFrame", "EndFrame", "Present"}
            /\ fcall.result \notin {"SUCCESS", "CRASH"}) =>
        (fe.m_State = fcall.from /\ pc \in {"test", "events"})
    /\ fhist.nextBegin # "crashed"

(* C3: once the main loop has started, Run returns only when the close
   condition holds (the shutdown flag was requested or the window reported a
   close request). *)
C3_RunReturnsOnlyOnClose ==
    (fcall.op = "Run" /\ fcall.result = "returned") => fcall.closeHeld

(* C4: after a backend Initialize that failed at some step, a following
   Shutdown leaves no native object of that Initialize alive. *)
C4_FailedInitReleasedByShutdown ==
    (lastCall.op = "Shutdown" /\ lastCall.result # "CRASH" /\ hist.lastInitFailed) =>
        nat.live = {}

\* a device with one of the defects that make it unfit for the surface
Unsuitable(device) == Defects(device) # {}

(* C5: a device that lacks a complete set of required queue families, lacks the
   swapchain extension, or reports no surface formats or no present modes has
   score 0 where scores are compared and is never selected. *)
C5_UnsuitableScoresZeroNeverSelected ==
    pickOut # NotPicked =>
        \A i \in 1..Len(pickDevices) :
            Unsuitable(pickDevices[i]) =>
                /\ DeviceScore(pickDevices[i]) = 0
                /\ pickOut.m_PhysicalDevice # i

(* C6: the work submitted for an in-flight slot is never still pending when
   BeginFrame resets the slot's command buffer. *)
C6_NoResetWhilePending == ~nat.pendingReset

(* C7: while a backend is initialized with max-frames-in-flight N >= 1, after k
   Presents that returned SUCCESS: 0 <= current_frame < N, current_frame =
   k mod N and frames_rendered = k. *)
C7_FrameCycle ==
    (be.m_IsInitialized /\ Alive /\ be.m_Config.max_frames_in_flight >= 1) =>
        LET N == be.m_Config.max_frames_in_flight
            k == hist.presentsOk
        IN  /\ 0 <= be.m_CurrentFrame
            /\ be.m_CurrentFrame < N
            /\ be.m_CurrentFrame = k % N
            /\ be.frames_rendered = k

(* C8: a Vulkan backend initialized with max-frames-in-flight N holds exactly N
   command buffers, N image-available semaphores, N render-finished semaphores
   and N fences. *)
C8_SlotsExist ==
    (be.kind = "Vulkan" /\ be.m_IsInitialized) =>
        LET N == be.m_Config.max_frames_in_flight
        IN  /\ Len(be.m_CommandBuffers) = N
            /\ Len(be.m_ImageAvailableSemaphores) = N
            /\ Len(be.m_RenderFinishedSemaphores) = N
            /\ Len(be.m_InFlightFences) = N

(* C9: Shutdown on a backend that is not initialized changes nothing; on an
   initialized backend it leaves the initialized flag false and every native
   handle null; no native object is ever destroyed twice. *)
C9_ShutdownNullsHandles ==
    /\ (lastCall.op = "Shutdown" /\ ~lastCall.wasInitialized) => ~lastCall.changed
    /\ (lastCall.op = "Shutdown" /\ lastCall.wasInitialized /\ lastCall.result # "CRASH") =>
        /\ ~be.m_IsInitialized
        /\ be.m_Instance = NullHandle
        /\ be.m_DebugMessenger = NullHandle
        /\ be.m_Surface = NullHandle
        /\ be.m_Device = NullHandle
        /\ be.m_Swapchain = NullHandle
        /\ be.m_CommandPool = NullHandle
    /\ ~nat.doubleFree

\* the place of a kind of object in the release order of Shutdown
DestroyRank(kind) ==
    CASE kind \in {"semaphore", "fence"} -> 1
      [] kind = "commandPool"            -> 2
      [] kind = "imageView"              -> 3
      [] kind = "swapchain"              -> 4
      [] kind = "device"                 -> 5
      [] kind = "debugMessenger"         -> 6
      [] kind = "surface"                -> 7
      [] kind = "instance"               -> 8

(* C10: a Vulkan Shutdown first waits for device idle and then destroys in the
   order: per-slot sync objects, command pool, image views and swapchain,
   logical device, debug messenger, surface, instance; so nothing is destroyed
   before an object that depends on it. *)
C10_ShutdownOrder ==
    LET log == nat.shutdownLog
    IN  log # <<>> =>
            /\ log[1].call = "WaitIdle"
            /\ \A i \in 2..Len(log) : log[i].call = "destroy"
            /\ \A i, j \in 2..Len(log) :
                  i < j => DestroyRank(log[i].kind) <= DestroyRank(log[j].kind)

\* a Shutdown has destroyed the debug messenger, the surface and the instance
C10_Witness ==
    /\ lastCall.op = "Shutdown"
    /\ { nat.shutdownLog[i].kind : i \in 2..Len(nat.shutdownLog) }
           = {"debugMessenger", "surface", "instance"}
    /\ nat.live = {}

(* C11: WaitIdle on a backend that is not initialized (never initialized, after a
   failed Initialize, or after Shutdown) changes nothing, waits for no device
   and returns. *)
C11_WaitIdleNoOp ==
    (lastCall.op = "WaitIdle" /\ ~lastCall.wasInitialized) =>
        /\ ~lastCall.changed
        /\ lastCall.deviceWaits = 0
        /\ lastCall.result = "void"

\* WaitIdle was called on a Vulkan backend after a Shutdown that destroyed its
\* instance, the handle of which the backend still holds
C11_Witness ==
    /\ lastCall.op = "WaitIdle"
    /\ ~lastCall.wasInitialized
    /\ be.kind = "Vulkan"
    /\ hist.initOk
    /\ be.m_Instance # NullHandle
    /\ <<"instance", be.m_Instance>> \notin nat.live

(* C13: Initialize called on an initialized backend of either class returns
   SUCCESS and changes neither the backend object (stored config, window,
   current frame, counters) nor any native object. *)
C13_InitializeIdempotent ==
    (lastCall.op = "Initialize" /\ lastCall.wasInitialized) =>
        /\ lastCall.result = "SUCCESS"
        /\ ~lastCall.changed

\* Initialize was called on an initialized Vulkan backend that had presented a
\* frame, with validation enabled in the stored configuration
C13_Witness ==
    /\ lastCall.op = "Initialize"
    /\ lastCall.wasInitialized
    /\ be.kind = "Vulkan"
    /\ be.m_IsInitialized
    /\ be.frames_rendered > 0

\* C12: a backend Initialize that runs its steps runs them in the order instance,
\* debug messenger, surface, physical-device selection, logical device, swapchain,
\* image views, command pool, command buffers, sync objects; every step before
\* the last one run succeeded; after a failed step nothing else runs, the
\* initialized flag is false and the call returns that step's result; the
\* frontend's Initialize then returns false in ERROR_STATE, having run the
\* steps once
C12_InitializeSteps ==
    (fcall.op = "Initialize" /\ fcall.initLog # <<>>) =>
        LET log == fcall.initLog
            k == Len(log) - 1
            order == << "CreateInstance", "SetupDebugMessenger", "CreateSurface",
                        "PickPhysicalDevice", "CreateLogicalDevice", "CreateSwapchain",
                        "CreateImageViews", "CreateCommandPool", "CreateCommandBuffers",
                        "CreateSyncObjects" >>
        IN /\ k \in 1..Len(order)
           /\ \A i \in 1..k : log[i].step = order[i] /\ ~log[i].initialized
           /\ \A i \in 1..(k - 1) : log[i].result = "SUCCESS"
           /\ log[k + 1].step = "return"
           /\ log[k + 1].result = log[k].result
           /\ log[k].result = "SUCCESS" => k = Len(order) /\ log[k + 1].initialized
           /\ log[k].result # "SUCCESS" =>
                /\ ~log[k + 1].initialized
                /\ be = NoBackend \/ ~be.m_IsInitialized
                /\ fcall.result = "false"
                /\ fe.m_State = "ERROR_STATE"

\* the surface step failed after the instance and the debug messenger were made
C12_Witness ==
    /\ fcall.op = "Initialize"
    /\ Len(fcall.initLog) = 4
    /\ fcall.initLog[3].step = "CreateSurface"
    /\ fcall.initLog[3].result # "SUCCESS"
    /\ fe.m_State = "ERROR_STATE"

\* C14: the frontend's no-op cases change nothing: Initialize while RUNNING or
\* PAUSED returns true; Pause outside RUNNING, Resume outside PAUSED and Shutdown
\* in UNINITIALIZED leave the state, the window, the backend and the native
\* objects as they were
C14_FrontendNoOps ==
    /\ (fcall.op = "Initialize" /\ fcall.from \in {"RUNNING", "PAUSED"}) =>
            fcall.result = "true" /\ ~fcall.changed /\ fe.m_State = fcall.from
    /\ (fcall.op = "Pause" /\ fcall.from # "RUNNING") =>
            ~fcall.changed /\ fe.m_State = fcall.from
    /\ (fcall.op = "Resume" /\ fcall.from # "PAUSED") =>
            ~fcall.changed /\ fe.m_State = fcall.from
    /\ (fcall.op = "Shutdown" /\ fcall.from = "UNINITIALIZED") =>
            ~fcall.changed /\ fe.m_State = fcall.from

\* Resume in ERROR_STATE, with the window of the failed Initialize still there
C14_Witness ==
    /\ fcall.op = "Resume" /\ fcall.from = "ERROR_STATE"
    /\ fe.m_State = "ERROR_STATE" /\ glfw.window

\* C15: Initialize called in UNINITIALIZED returns false in ERROR_STATE, or true
\* in RUNNING with the window created and the backend created and initialized;
\* it never returns in INITIALIZING
C15_InitializeOutcome ==
    (fcall.op = "Initialize" /\ fcall.from = "UNINITIALIZED") =>
        \/ fcall.result = "false" /\ fe.m_State = "ERROR_STATE"
             /\ (~glfw.window \/ be = NoBackend \/ ~be.m_IsInitialized)
        \/ fcall.result = "true" /\ fe.m_State = "RUNNING"
             /\ glfw.window /\ be # NoBackend /\ be.m_IsInitialized

\* the window was created and the backend was created, and its Initialize failed
C15_Witness ==
    /\ fcall.op = "Initialize" /\ fcall.from = "UNINITIALIZED"
    /\ fcall.result = "false" /\ glfw.window /\ fcall.initLog # <<>>

\* C16: Run called outside RUNNING returns at once: no event poll, no callback,
\* no backend operation, and nothing changes
C16_RunRejected ==
    (fcall.op = "Run" /\ fcall.result # "returned" /\ fcall.from # "RUNNING") =>
        /\ fcall.result = "rejected"
        /\ pc = "idle"
        /\ fcall.calls = <<>> /\ fhist.iter = <<>>
        /\ ~fcall.changed
        /\ fe.m_State = fcall.from

\* Run on a paused frontend whose backend is initialized
C16_Witness ==
    /\ fcall.op = "Run" /\ fcall.result = "rejected" /\ fcall.from = "PAUSED"
    /\ be # NoBackend /\ be.m_IsInitialized

\* the steps of a main-loop iteration, in the order the specification gives
LoopOrder ==
    << "glfwPollEvents", "inputCallback", "UpdateTiming", "Backend.HandleResize",
       "resizeCallback", "updateCallback", "BeginFrame", "renderCallback", "EndFrame",
       "Present" >>

LoopRank(call) == CHOOSE i \in 1..Len(LoopOrder) : LoopOrder[i] = call

\* the steps an iteration cannot leave out on its way to a later one
LoopAlways == { LoopOrder[i] : i \in 1..Len(LoopOrder) } \ {"Backend.HandleResize", "resizeCallback"}

\* C17: the calls of a main-loop iteration happen in the order poll events, input
\* callback, timing update, resize forwarding, update callback, BeginFrame,
\* render callback, EndFrame, Present, each at most once and none left out
\* before a later one; when Present has returned SUCCESS (BeginFrame and
\* EndFrame did before it) the render callback has fired once between BeginFrame
\* and EndFrame, and frame_count and frames_rendered are each one more than
\* when the iteration began
C17_LoopOrder ==
    LET it == fhist.iter
    IN /\ \A i \in 1..Len(it) : it[i] \in { LoopOrder[j] : j \in 1..Len(LoopOrder) }
       /\ \A i \in 1..(Len(it) - 1) : LoopRank(it[i]) < LoopRank(it[i + 1])
       /\ \A i \in 1..Len(it) :
            \A c \in LoopAlways :
                LoopRank(c) < LoopRank(it[i]) => \E j \in 1..(i - 1) : it[j] = c
       /\ (pc = "test" /\ fcall.op = "Present" /\ fcall.result = "SUCCESS") =>
            /\ it # <<>> /\ it[Len(it)] = "Present"
            /\ Cardinality({ i \in 1..Len(it) : it[i] = "renderCallback" }) = 1
            /\ fe.frame_count = fhist.startCount + 1
            /\ be.frames_rendered = fhist.startRendered + 1

\* a whole iteration with a resize forwarded and the frame presented
C17_Witness ==
    /\ pc = "test" /\ fcall.op = "Present" /\ fcall.result = "SUCCESS"
    /\ Len(fhist.iter) = Len(LoopOrder)
    /\ be.kind = "Vulkan"

C19_OutdatedFrameSkipped ==
    fhist.skipped =>
        /\ fcall.op = "BeginFrame" => fcall.result = "SUCCESS"
        /\ \A i \in 1..Len(fhist.iter) :
                fhist.iter[i] \notin {"renderCallback", "EndFrame", "Present"}
        /\ be.frames_rendered = fhist.startRendered

\* C20: in a Present of the initialized Vulkan backend that reaches the
\* presentation, when the presentation reports the surface outdated or
\* suboptimal, or the resize flag was set, the swapchain is recreated exactly
\* once, the resize flag is cleared, current_frame advances and the call
\* returns SUCCESS; after any Present that returns SUCCESS the flag is false
C20_PresentRecreates ==
    (lastCall.op = "Present" /\ lastCall.wasInitialized /\ be.kind = "Vulkan") =>
        /\ (lastCall.presented /\ (lastCall.outdated \/ lastCall.resizedBefore)) =>
                /\ lastCall.recreations = 1
                /\ ~be.m_FramebufferResized
                /\ lastCall.result = "SUCCESS"
                /\ be.m_Config.max_frames_in_flight > 0
                /\ be.m_CurrentFrame =
                        (lastCall.frameBefore + 1) % be.m_Config.max_frames_in_flight
        /\ lastCall.result = "SUCCESS" => ~be.m_FramebufferResized

\* C21: HandleResize(width, height) of either backend records the dimensions
\* and sets the resize-pending flag and does nothing else: no other member of
\* the backend changes, no native object is created or destroyed and no
\* swapchain is recreated in the call
C21_HandleResizeRecords ==
    lastCall.op = "HandleResize" =>
        /\ be.m_FramebufferResized
        /\ HandleResize(be, nat, 800, 600).be # HandleResize(be, nat, 1024, 768).be
        /\ lastCall.touched \subseteq {"m_FramebufferResized"}
        /\ lastCall.natTouched = {}
        /\ lastCall.recreations = 0

\* the names of the steps a call's RecreateSwapchain ran, in order
RecreateSteps == [i \in 1..Len(lastCall.recreateLog) |-> lastCall.recreateLog[i].step]

\* C22: a RecreateSwapchain of the Vulkan backend only reads the size and
\* waits for events until a read reports a nonzero area, then waits for the
\* device, then tears down and rebuilds the swapchain and its image views; a
\* call of RecreateSwapchain itself changes no member of the backend but the
\* swapchain and its image views and no native object of another kind
C22_RecreateSwapchainOrder ==
    (be.kind = "Vulkan" /\ lastCall.result # "CRASH") =>
        /\ lastCall.recreateLog # <<>> =>
              \E k \in 1..Len(RecreateSteps) :
                /\ SubSeq(RecreateSteps, k, Len(RecreateSteps)) =
                        << "WaitIdle", "CleanupSwapchain", "CreateSwapchain",
                           "CreateImageViews" >>
                /\ \A i \in 1..(k - 1) :
                        /\ RecreateSteps[i] \in {"glfwGetFramebufferSize", "glfwWaitEvents"}
                        /\ (/\ RecreateSteps[i] = "glfwGetFramebufferSize"
                            /\ ZeroArea(lastCall.recreateLog[i].size)) =>
                                \E j \in (i + 1)..(k - 1) :
                                    RecreateSteps[j] = "glfwGetFramebufferSize"
                /\ \E i \in 1..(k - 1) :
                        /\ RecreateSteps[i] = "glfwGetFramebufferSize"
                        /\ ~ZeroArea(lastCall.recreateLog[i].size)
        /\ lastCall.op = "RecreateSwapchain" =>
                /\ lastCall.recreateLog # <<>>
                /\ lastCall.recreations = 1
                /\ lastCall.touched \subseteq {"m_Swapchain", "m_SwapchainImageViews"}
                /\ lastCall.natTouched \subseteq {"swapchain", "imageView"}
                /\ be.m_IsInitialized = lastCall.wasInitialized

\* an initialized backend recreated after the window stayed minimized over two reads
C22_Witness ==
    /\ lastCall.op = "RecreateSwapchain" /\ lastCall.wasInitialized
    /\ be.kind = "Vulkan" /\ lastCall.result = "SUCCESS"
    /\ Len(lastCall.recreateLog) = 9
    /\ ZeroArea(lastCall.recreateLog[1].size)

\* C23: BeginFrame, EndFrame and Present on a backend of either class that is
\* not initialized return FAILED_INITIALIZATION and change nothing
C23_FrameOpsNeedInitialize ==
    (lastCall.op \in {"BeginFrame", "EndFrame", "Present"} /\ ~lastCall.wasInitialized) =>
        /\ lastCall.result = "FAILED_INITIALIZATION"
        /\ lastCall.touched = {}
        /\ lastCall.natTouched = {}
        /\ ~lastCall.changed

\* BeginFrame refused on a stub that rendered a frame and was shut down
C23_Witness ==
    /\ lastCall.op = "BeginFrame" /\ ~lastCall.wasInitialized
    /\ be.kind = "DirectX12" /\ be.frames_rendered > 0

\* C24: on either backend frames_rendered counts the Present calls that
\* returned SUCCESS: a BeginFrame, an EndFrame or a failed Present leaves it,
\* a Present that returns SUCCESS adds one
C24_FramesRenderedPerPresent ==
    (lastCall.op \in {"BeginFrame", "EndFrame", "Present"} /\ lastCall.result # "CRASH") =>
        be.frames_rendered =
            lastCall.renderedBefore
                + (IF lastCall.op = "Present" /\ lastCall.result = "SUCCESS" THEN 1 ELSE 0)

\* C25: the device type weight dominates the score: of two fit devices, one
\* discrete and one integrated, the discrete one has the strictly higher score
\* and the integrated one is not the device selected, whatever their
\* maxImageDimension2D limits and features
C25_DiscreteDominates ==
    pickOut # NotPicked =>
        \A i, j \in 1..Len(pickDevices) :
            (/\ ~Unsuitable(pickDevices[i]) /\ pickDevices[i].deviceType = "DISCRETE"
             /\ ~Unsuitable(pickDevices[j]) /\ pickDevices[j].deviceType = "INTEGRATED") =>
                /\ DeviceScore(pickDevices[i]) > DeviceScore(pickDevices[j])
                /\ pickOut.m_PhysicalDevice # j

\* the scores of the enumerated devices, as PickPhysicalDevice compares them
PickScores == [i \in 1..Len(pickDevices) |-> DeviceScore(pickDevices[i])]

\* C26: when some enumerated device has a nonzero score PickPhysicalDevice
\* succeeds and selects a device whose score is maximal and nonzero, the
\* earliest one among those with that score; otherwise (no device, or every
\* score zero) it returns FAILED_INITIALIZATION and selects no device
C26_PickMaximalFirst ==
    pickOut # NotPicked =>
        IF \E i \in 1..Len(pickDevices) : PickScores[i] > 0
        THEN /\ pickOut.result = "SUCCESS"
             /\ pickOut.m_PhysicalDevice \in 1..Len(pickDevices)
             /\ PickScores[pickOut.m_PhysicalDevice] > 0
             /\ \A i \in 1..Len(pickDevices) :
                    /\ PickScores[i] <= PickScores[pickOut.m_PhysicalDevice]
                    /\ i < pickOut.m_PhysicalDevice =>
                            PickScores[i] < PickScores[pickOut.m_PhysicalDevice]
        ELSE /\ pickOut.result = "FAILED_INITIALIZATION"
             /\ pickOut.m_PhysicalDevice = NullDevice

\* two different devices share the highest score and the first one is selected
C26_Witness ==
    /\ pickOut.result = "SUCCESS" /\ Len(pickDevices) = 2
    /\ pickDevices[1] # pickDevices[2]
    /\ PickScores[1] = PickScores[2]
    /\ pickOut.m_PhysicalDevice = 1

\* C27: after any sequence of setter calls on a default GraphicsConfig the
\* vsync flag is true exactly when the present mode is FIFO or FIFO_RELAXED;
\* SetVSync(true) leaves FIFO, SetVSync(false) leaves IMMEDIATE,
\* SetPresentMode(m) leaves m, and no other setter changes either member
C27_VSyncMatchesPresentMode ==
    ~cfgCall.direct =>
        /\ cfg.m_WindowConfig.vsync =
                (cfg.m_RenderConfig.present_mode \in {"FIFO", "FIFO_RELAXED"})
        /\ cfgCall.op = "SetVSync" =>
                /\ cfg.m_WindowConfig.vsync = cfgCall.arg
                /\ cfg.m_RenderConfig.present_mode =
                        IF cfgCall.arg THEN "FIFO" ELSE "IMMEDIATE"
        /\ cfgCall.op = "SetPresentMode" => cfg.m_RenderConfig.present_mode = cfgCall.arg
        /\ cfgCall.op \notin {"SetVSync", "SetPresentMode"} =>
                /\ cfg.m_WindowConfig.vsync = cfgCall.before.m_WindowConfig.vsync
                /\ cfg.m_RenderConfig.present_mode =
                        cfgCall.before.m_RenderConfig.present_mode

\* SetPresentMode(FIFO_RELAXED) after SetVSync(false)
C27_Witness ==
    /\ cfgCall.op = "SetPresentMode" /\ cfgCall.arg = "FIFO_RELAXED"
    /\ ~cfgCall.direct
    /\ cfgCall.before.m_RenderConfig.present_mode = "IMMEDIATE"
    /\ ~cfgCall.before.m_WindowConfig.vsync
    /\ cfg.m_WindowConfig.vsync

\* C28: IsValid() is true exactly when width >= 1, height >= 1, the title is
\* not empty, max_frames_in_flight is in 1..8 and target_fps is in 30..300,
\* for every configuration reached through setters and mutable accessors
C28_IsValidIsTheInvariants ==
    IsValid(cfg) =
        /\ cfg.m_WindowConfig.width >= 1
        /\ cfg.m_WindowConfig.height >= 1
        /\ cfg.m_WindowConfig.title # ""
        /\ cfg.m_RenderConfig.max_frames_in_flight \in 1..8
        /\ cfg.m_PerformanceConfig.target_fps \in 30..300

\* C29: SetWindowSize(w, h) stores w and h, with 1 in place of a dimension
\* given as 0, each dimension on its own, and changes no other member
C29_SetWindowSizeClamps ==
    cfgCall.op = "SetWindowSize" =>
        cfg = [cfgCall.before EXCEPT
                 !.m_WindowConfig.width = IF cfgCall.arg[1] >= 1 THEN cfgCall.arg[1] ELSE 1,
                 !.m_WindowConfig.height = IF cfgCall.arg[2] >= 1 THEN cfgCall.arg[2] ELSE 1]

\* SetWindowSize(0, 1920)
C29_Witness ==
    /\ cfgCall.op = "SetWindowSize" /\ cfgCall.arg = <<0, 1920>>
    /\ cfg.m_WindowConfig.width = 1 /\ cfg.m_WindowConfig.height = 1920

\* C30: SetMaxFramesInFlight(n) stores n when 1 <= n <= 8, 1 when n = 0 and 8
\* when n > 8; a second call with the same n leaves the object as the first
\* call left it
C30_SetMaxFramesInFlightClamps ==
    cfgCall.op = "SetMaxFramesInFlight" =>
        /\ cfg.m_RenderConfig.max_frames_in_flight =
                IF cfgCall.arg = 0 THEN 1 ELSE IF cfgCall.arg > 8 THEN 8 ELSE cfgCall.arg
        /\ cfgCall.repeated => cfg = cfgCall.before
        /\ SetMaxFramesInFlight(cfg, cfgCall.arg) = cfg

\* SetMaxFramesInFlight(9) called twice in a row
C30_Witness ==
    /\ cfgCall.op = "SetMaxFramesInFlight" /\ cfgCall.repeated
    /\ cfgCall.arg = 9
    /\ cfg.m_RenderConfig.max_frames_in_flight = 8

\* C31: CreateBackend makes the Vulkan backend for VULKAN and for AUTO_SELECT
\* and the DirectX12 backend for DIRECTX12, and no backend only for a value
\* outside the enumeration; the backend a frontend owns is the one of its
\* preferred API, and an Initialize with a value outside the enumeration
\* returns false in ERROR_STATE with no backend
C31_FactoryMapping ==
    /\ CreateBackend("VULKAN").kind = "Vulkan"
    /\ CreateBackend("DIRECTX12").kind = "DirectX12"
    /\ CreateBackend("AUTO_SELECT").kind = "Vulkan"
    /\ \A api \in GraphicsAPI \cup {UnknownAPI} :
            (CreateBackend(api) = NoBackend) = (api \notin GraphicsAPI)
    /\ be # NoBackend =>
            be.kind = IF fe.m_Config.preferred_api = "DIRECTX12" THEN "DirectX12" ELSE "Vulkan"
    /\ (/\ fcall.op = "Initialize" /\ fcall.from = "UNINITIALIZED"
        /\ fe.m_Config.preferred_api \notin GraphicsAPI) =>
            /\ fcall.result = "false"
            /\ fe.m_State = "ERROR_STATE"
            /\ be = NoBackend

\* Initialize with a value outside the enumeration: the window was created,
\* the factory made no backend
C31_Witness ==
    /\ fcall.op = "Initialize" /\ fcall.from = "UNINITIALIZED"
    /\ fe.m_Config.preferred_api = UnknownAPI
    /\ glfw.window /\ be = NoBackend /\ fe.m_State = "ERROR_STATE"

\* C33: whenever the backend an Initialize creates for the window it made is
\* the Vulkan backend, the window was created with the GLFW_NO_API client hint
C33_VulkanWindowNoApi ==
    (/\ fcall.op = "Initialize" /\ fcall.from = "UNINITIALIZED" /\ glfw.window
     /\ CreateBackend(fe.m_Config.preferred_api).kind = "Vulkan") => glfw.noApi

\* the number of times the stub logged the warning of a function
WarningsOf(function_name) ==
    Cardinality({ i \in 1..Len(nat.warnings) : nat.warnings[i] = function_name })

\* C32: every operation of the DirectX12 stub returns SUCCESS, initialized or
\* not, and once it has been called its own "not implemented" warning has been
\* logged exactly once
C32_StubSucceedsAndWarnsOnce ==
    (/\ be.kind = "DirectX12"
     /\ lastCall.op \in {"Initialize", "BeginFrame", "EndFrame", "Present", "HandleResize",
                          "RecreateSwapchain"}) =>
        /\ lastCall.result = "SUCCESS"
        /\ WarningsOf(lastCall.op) = 1

\* the slot a frame operation of the initialized Vulkan backend indexes in the
\* per-slot vectors: current_frame as the call found it
SlotIndexed ==
    IF lastCall.op = "Present" THEN lastCall.frameBefore ELSE be.m_CurrentFrame

\* the Present reached `m_CurrentFrame = (m_CurrentFrame + 1) % max_frames_in_flight`
PresentAdvanced ==
    /\ lastCall.op = "Present"
    /\ lastCall.result \in {"SUCCESS", "CRASH"}
    /\ lastCall.presented

\* C34: with any configuration the public interface of GraphicsConfig can
\* produce, a BeginFrame, EndFrame or Present of the initialized Vulkan backend
\* indexes a slot the per-slot vectors hold, and a Present that advances
\* current_frame does not compute it modulo 0
C34_ToleratesConfig ==
    (/\ be.kind = "Vulkan"
     /\ lastCall.wasInitialized
     /\ lastCall.op \in {"BeginFrame", "EndFrame", "Present"}) =>
        /\ SlotIndexed < be.m_Config.max_frames_in_flight
        /\ PresentAdvanced => be.m_Config.max_frames_in_flight # 0

\* MainLoop's condition at the first test of a Run called now
LoopWouldIterate(f, g) == f.m_State = "RUNNING" /\ ~ShouldClose(f, g)

\* C38: a close request does not outlive Shutdown: when a Shutdown that shut
\* the frontend down is followed by an Initialize that succeeds, no close is
\* requested and no resize is pending any more, so that a Run called next
\* executes a loop iteration
C38_CloseRequestEndsWithShutdown ==
    [][(/\ fcall.op = "Shutdown" /\ fcall.from # "UNINITIALIZED"
        /\ fcall'.op = "Initialize" /\ fcall'.result = "true") =>
            /\ LoopWouldIterate(fe', glfw')
            /\ ~fe'.m_ResizeRequested]_vars

\* the frontend holds a window: m_Window is set and the window system has it
WindowExists == fe.m_Window # NullHandle /\ glfw.window

\* C40: in state RUNNING or PAUSED the frontend holds its window and one
\* initialized backend; in state UNINITIALIZED it holds neither; whenever it
\* holds a backend it holds a window
C40_FrontendResources ==
    /\ fe.m_State \in {"RUNNING", "PAUSED"} =>
            WindowExists /\ be # NoBackend /\ be.m_IsInitialized
    /\ fe.m_State = "UNINITIALIZED" =>
            fe.m_Window = NullHandle /\ ~glfw.window /\ be = NoBackend
    /\ be # NoBackend => WindowExists

\* a Shutdown of a frontend that was paused after its loop had run has released
\* the backend and the window
C40_Witness ==
    /\ fcall.op = "Shutdown" /\ fcall.from = "PAUSED"
    /\ fe.frame_count > 0
    /\ fe.m_State = "UNINITIALIZED"
    /\ be = NoBackend /\ ~glfw.window

(***************************************************************************)
(* The Engine layer: InitializeEngine, RunApplication and ShutdownEngine   *)
(* on the global instance, Engine::Run driving one Application through the *)
(* frontend's main loop or through the loop without graphics.  An          *)
(* iteration of either loop is one step.                                   *)
(***************************************************************************)
MinOf(a, b) == IF a < b THEN a ELSE b

\* the application's function `name` is called
AppCalled(a, name) ==
    [a EXCEPT !.count[name] = MinOf(@ + 1, 2),
              !.first = IF a.last = "none" THEN name ELSE @,
              !.last = name,
              !.iter = IF name \in {"Update", "Render"} THEN Append(@, name) ELSE <<>>]

\* a loop iteration begins
NewIteration(x) == [x EXCEPT !.app.iter = <<>>]

\* what the engine's calls work on: the Engine object e, the calls made on the
\* application, the world w of the engine's frontend, the value returned
EngineWorld ==
    [e |-> engine, app |-> erun.app, w |-> World, result |-> TRUE]

\* Engine::ShouldClose
EngineShouldClose(e, f, g) ==
    e.m_ShouldShutdown \/ (e.m_Graphics /\ ShouldClose(f, g))

\* Engine::InitializeSystems: the frontend is constructed with a default
\* GraphicsConfig and initialized; the other systems cannot fail
InitializeSystems(x, answer, env) ==
    IF ~x.e.enable_graphics THEN [x EXCEPT !.result = TRUE]
    ELSE Bind(FrontendInitialize([x.w EXCEPT !.fe = NewFrontend(DefaultConfig)], answer, env),
              LAMBDA w1 : [x EXCEPT !.e.m_Graphics = TRUE, !.w = w1, !.result = w1.result])

\* Engine::Initialize
EngineInitialize(x, enable_graphics, answer, env) ==
    IF x.e.m_IsInitialized THEN [x EXCEPT !.result = TRUE]
    ELSE Bind(InitializeSystems([x EXCEPT !.e.enable_graphics = enable_graphics],
                                answer, env),
              LAMBDA x1 : IF ~x1.result THEN x1
                          ELSE [x1 EXCEPT !.e.m_IsInitialized = TRUE])

\* InitializeEngine
InitializeEngine(x, enable_graphics, answer, env) ==
    IF x.e.exists THEN [x EXCEPT !.result = TRUE]
    ELSE EngineInitialize([x EXCEPT !.e = NewEngine], enable_graphics, answer, env)

\* what Application::Update may call: nothing, Engine::RequestShutdown, or
\* RequestShutdown of the frontend GetGraphics() returns
AppOps == {"none", "Engine.RequestShutdown", "Graphics.RequestShutdown"}

AppDoes(x, op) ==
    CASE op = "Engine.RequestShutdown" -> [x EXCEPT !.e.m_ShouldShutdown = TRUE]
      [] op = "Graphics.RequestShutdown" /\ x.e.m_Graphics ->
            [x EXCEPT !.w = RequestShutdown(x.w)]
      [] OTHER -> x

\* the update callback Engine::Run hands to the frontend: app->Update
EngineUpdateCallback(x, op) ==
    AppDoes([x EXCEPT !.app = AppCalled(@, "Update"),
                      !.w = Outcall(@, "updateCallback", 0, 0)], op)

\* the render callback Engine::Run hands to the frontend: app->Render
EngineRenderCallback(x) ==
    [x EXCEPT !.app = AppCalled(@, "Render"), !.w = Outcall(@, "renderCallback", 0, 0)]

\* a backend call of Render leaves the backend and the native layer
AfterBackendCall(x, r) == [x EXCEPT !.w.be = r.be, !.w.nat = Settle(r.nat)]

\* GraphicsFrontend::Render with the engine's render callback
EngineRender(x, env) ==
    IF x.w.be = NoBackend THEN x
    ELSE Bind(BeginFrame(x.w.be, x.w.nat, env),
              LAMBDA r1 :
                IF r1.result # "SUCCESS" THEN [x EXCEPT !.w.be = r1.be, !.w.nat = r1.nat]
                ELSE Bind(EngineRenderCallback(AfterBackendCall(x, r1)),
                          LAMBDA x1 :
                     Bind(EndFrame(x1.w.be, x1.w.nat, env),
                          LAMBDA r2 :
                            IF r2.result # "SUCCESS"
                            THEN [x1 EXCEPT !.w.be = r2.be, !.w.nat = r2.nat]
                            ELSE Bind(Present(r2.be, Settle(r2.nat), env),
                                      LAMBDA r3 :
                                        [x1 EXCEPT !.w.be = r3.be, !.w.nat = r3.nat]))))

\* one iteration of GraphicsFrontend::MainLoop under Engine::Run: the engine
\* sets the update and the render callback only
GraphicsIteration(x, batch, op, env) ==
    Bind(FrontendHandleResize(UpdateTiming(ProcessEvents(x.w, batch, "none")), "none"),
         LAMBDA w1 :
            IF w1.fe.m_State # "RUNNING" THEN [NewIteration(x) EXCEPT !.w = w1]
            ELSE EngineRender(EngineUpdateCallback([NewIteration(x) EXCEPT !.w = w1], op),
                              env))

\* an iteration of the loop without graphics that renders before it updates
FallbackIterationRenderFirst(x, op) ==
    AppDoes([NewIteration(x) EXCEPT !.app = AppCalled(AppCalled(@, "Render"), "Update")],
            op)

\* one iteration of the loop without graphics: app->Update, then app->Render
FallbackIteration(x, op) ==
    Bind(AppDoes([NewIteration(x) EXCEPT !.app = AppCalled(@, "Update")], op),
         LAMBDA x1 : [x1 EXCEPT !.app = AppCalled(@, "Render")])

\* the loop Engine::Run is in goes on to another iteration
LoopContinues(pos, e, f, g) ==
    IF pos = "graphics" THEN ~ShouldClose(f, g) /\ f.m_State = "RUNNING"
    ELSE e.m_IsRunning /\ ~EngineShouldClose(e, f, g)

\* Engine::Shutdown and the destructor: the frontend, when there is one, is
\* shut down once
DestroyEngine(x, oob) ==
    IF ~x.e.m_Graphics THEN [x EXCEPT !.e = NoEngine]
    ELSE Bind(FrontendShutdown(x.w, oob),
              LAMBDA w1 : IF w1.nat.crashed THEN [x EXCEPT !.w = w1]
                          ELSE [x EXCEPT !.e = NoEngine,
                                         !.w = [w1 EXCEPT !.fe = NewFrontend(DefaultConfig)]])

\* the counters of frames stop counting at the bounds
Saturated(w) ==
    [w EXCEPT !.fe.frame_count = MinOf(@, MaxLoops),
              !.be.frames_rendered = MinOf(@, MaxFrames)]

\* the engine's world after a call
EngineCommit(x) ==
    /\ x.w.nat.created["instance"] <= MaxInits
    /\ engine' = x.e
    /\ fe' = Saturated(x.w).fe
    /\ be' = Saturated(x.w).be
    /\ nat' = Settle(x.w.nat)
    /\ glfw' = x.w.glfw

\* what the window system and the native layer answer to the frontend's
\* Initialize
EngineInitAnswers ==
    { <<"ok", QuietInitEnv>>, <<"windowFails", QuietInitEnv>>,
      <<"ok", [QuietInitEnv EXCEPT !.surface = FALSE]>> }

\* the window events of one iteration
EngineBatches ==
    { <<>>, << [kind |-> "close", width |-> 0, height |-> 0] >>,
      << [kind |-> "resize", width |-> 800, height |-> 600] >> }

\* the answers of the native layer in one iteration
EngineFrameEnvs ==
    { QuietEnv, CrashEnv, [QuietEnv EXCEPT !.acquire = "VK_ERROR"] }

EngineIdle == erun.pc = "idle" /\ Alive

EInitializeEngine ==
    /\ EngineIdle
    /\ \E enable_graphics \in BOOLEAN, a \in EngineInitAnswers :
        \E x \in { InitializeEngine(EngineWorld, enable_graphics, a[1], a[2]) } :
            /\ EngineCommit(x)
            /\ erun' = [erun EXCEPT !.op = "InitializeEngine",
                                    !.result = IF x.result THEN "true" ELSE "false",
                                    !.lastInit = IF x.result THEN "true" ELSE "false"]
    /\ UNCHANGED <<pc, fcall, fhist, lastCall, hist, pickVars, cfgVars>>

\* RunApplication -> Engine::Run up to the first test of a loop condition
ERunApplication ==
    /\ EngineIdle
    /\ \E app \in {"null", "app"}, ok \in BOOLEAN :
        LET rejected == CASE ~engine.exists          -> "no engine"
                          [] ~engine.m_IsInitialized -> "not initialized"
                          [] app = "null"            -> "no application"
                          [] ~ok                     -> "application failed"
                          [] OTHER                   -> "none"
            called == IF rejected \in {"application failed", "none"}
                      THEN AppCalled(NoAppCalls, "Initialize") ELSE NoAppCalls
        IN  /\ engine' = IF rejected = "none" THEN [engine EXCEPT !.m_IsRunning = TRUE]
                         ELSE engine
            /\ erun' = [erun EXCEPT
                          !.op = "RunApplication",
                          !.result = IF rejected = "none" THEN "running" ELSE rejected,
                          !.pc = IF rejected # "none" THEN "idle"
                                 ELSE IF engine.m_Graphics THEN "graphics" ELSE "fallback",
                          !.requested = FALSE,
                          !.app = called]
    /\ UNCHANGED <<fe, glfw, be, nat, pc, fcall, fhist, lastCall, hist, pickVars, cfgVars>>

\* an iteration of the frontend's main loop under Engine::Run
EGraphicsIterate ==
    /\ erun.pc = "graphics" /\ Alive
    /\ LoopContinues("graphics", engine, fe, glfw)
    /\ BeginFrameReturns(be, nat)
    /\ \E batch \in EngineBatches, op \in AppOps, env \in FrameAnswers(EngineFrameEnvs) :
        \E x \in { GraphicsIteration(EngineWorld, batch, op, env) } :
            /\ EngineCommit(x)
            /\ erun' = [erun EXCEPT !.app = x.app,
                                    !.requested = @ \/ op = "Engine.RequestShutdown"]
    /\ UNCHANGED <<pc, fcall, fhist, lastCall, hist, pickVars, cfgVars>>

\* an iteration of the loop without graphics
EFallbackIterate ==
    /\ erun.pc = "fallback" /\ Alive
    /\ LoopContinues("fallback", engine, fe, glfw)
    /\ \E op \in AppOps :
        \E x \in { FallbackIteration(EngineWorld, op) } :
            /\ EngineCommit(x)
            /\ erun' = [erun EXCEPT !.app = x.app,
                                    !.requested = @ \/ op = "Engine.RequestShutdown"]
    /\ UNCHANGED <<pc, fcall, fhist, lastCall, hist, pickVars, cfgVars>>

\* the loop ends: app->Shutdown(), m_IsRunning = false, Engine::Run returns
ERunReturns ==
    /\ erun.pc \in {"graphics", "fallback"} /\ Alive
    /\ ~LoopContinues(erun.pc, engine, fe, glfw)
    /\ engine' = [engine EXCEPT !.m_IsRunning = FALSE]
    /\ erun' = [erun EXCEPT !.pc = "idle", !.result = "returned",
                            !.app = AppCalled(@, "Shutdown")]
    /\ UNCHANGED <<fe, glfw, be, nat, pc, fcall, fhist, lastCall, hist, pickVars, cfgVars>>

\* Engine::RequestShutdown on the global instance, outside Run
ERequestShutdown ==
    /\ EngineIdle
    /\ engine.exists
    /\ engine' = [engine EXCEPT !.m_ShouldShutdown = TRUE]
    /\ erun' = [erun EXCEPT !.op = "RequestShutdown", !.result = "void"]
    /\ UNCHANGED <<fe, glfw, be, nat, pc, fcall, fhist, lastCall, hist, pickVars, cfgVars>>

\* ShutdownEngine
EShutdownEngine ==
    /\ EngineIdle
    /\ \E oob \in IF be.kind = "Vulkan" /\ be.m_IsInitialized THEN OutOfBounds ELSE {"null"} :
        \E x \in { IF engine.exists THEN DestroyEngine(EngineWorld, oob) ELSE EngineWorld } :
            /\ EngineCommit(x)
            /\ erun' = [erun EXCEPT !.op = "ShutdownEngine", !.result = "void",
                                    !.lastInit = "none"]
    /\ UNCHANGED <<pc, fcall, fhist, lastCall, hist, pickVars, cfgVars>>

EngineInit ==
    /\ engine = NoEngine
    /\ erun = NoEngineRun
    /\ fe = NewFrontend(DefaultConfig)
    /\ glfw = NoWindow
    /\ pc = "idle"
    /\ fcall = NoFrontendCall
    /\ fhist = LoopHistInit
    /\ be = NoBackend
    /\ nat = NativeInit
    /\ lastCall = NoCall
    /\ hist = HistInit
    /\ pickDevices = <<>>
    /\ pickOut = NotPicked
    /\ cfg = NewGraphicsConfig
    /\ cfgCall = NoConfigCall

EngineNext ==
    \/ EInitializeEngine
    \/ ERunApplication
    \/ EGraphicsIterate
    \/ EFallbackIterate
    \/ ERunReturns
    \/ ERequestShutdown
    \/ EShutdownEngine

SpecEngine == EngineInit /\ [][EngineNext]_vars

\* Engine::Run is sequential code on one thread: a loop that can iterate
\* iterates, and a loop whose condition fails is left.  Nothing obliges the
\* window system to deliver a close event
SpecEngineLive ==
    /\ SpecEngine
    /\ WF_vars(EGraphicsIterate)
    /\ WF_vars(EFallbackIterate)
    /\ WF_vars(ERunReturns)

\* the latest call was a RunApplication that Engine::Run turned down, or that
\* found no engine
RunRejected ==
    /\ erun.op = "RunApplication"
    /\ erun.result \in {"no engine", "not initialized", "no application",
                        "application failed"}

\* C35: in one Engine::Run the application's Initialize is called once and
\* before everything else; each loop iteration calls Update, or Update and then
\* Render (both, in the loop without graphics); Shutdown is called once, last,
\* and has been called when Run has returned from a loop; a Run that found the
\* engine not initialized, no application, or an application whose Initialize
\* returned false has called no Update, no Render and no Shutdown
C35_RunDrivesApplication ==
    /\ erun.app.count["Initialize"] <= 1
    /\ erun.app.last # "none" => erun.app.first = "Initialize"
    /\ erun.app.iter \in {<<>>, <<"Update">>, <<"Update", "Render">>}
    /\ (erun.pc = "fallback" /\ erun.app.iter # <<>>) => erun.app.iter = <<"Update", "Render">>
    /\ erun.app.count["Shutdown"] <= 1
    /\ erun.app.count["Shutdown"] = 1 => erun.app.last = "Shutdown" /\ erun.pc = "idle"
    /\ (erun.op = "RunApplication" /\ erun.result = "returned") =>
            erun.app.count["Shutdown"] = 1
    /\ RunRejected =>
            /\ erun.app.count["Update"] = 0
            /\ erun.app.count["Render"] = 0
            /\ erun.app.count["Shutdown"] = 0
            /\ erun.app.count["Initialize"] =
                    IF erun.result = "application failed" THEN 1 ELSE 0

\* a Run with graphics has returned after two iterations or more, one of which
\* rendered
C35_Witness ==
    /\ erun.op = "RunApplication" /\ erun.result = "returned"
    /\ engine.m_Graphics
    /\ erun.app.count["Update"] = 2
    /\ erun.app.count["Render"] >= 1
    /\ erun.app.count["Shutdown"] = 1

\* C36: once Engine::RequestShutdown has been called during an Engine::Run,
\* with or without graphics, the run returns, unless the process dies first
C36_RequestShutdownEndsRun ==
    (erun.pc # "idle" /\ erun.requested) ~> (erun.pc = "idle" \/ nat.crashed)

\* C39: when the latest InitializeEngine returned true, the global instance
\* exists and is initialized, and a RunApplication is not turned down as not
\* initialized
C39_InitializeEngineTrueMeansInitialized ==
    erun.lastInit = "true" =>
        /\ engine.exists /\ engine.m_IsInitialized
        /\ erun.op = "RunApplication" => erun.result # "not initialized"

=============================================================================
